---- MODULE Spec2Model ----
(***************************************************************************)
(* Model of the stamp application: the renderer's piece list (App.tsx) and *)
(* the document engine of the main process (pdf-service: applyStamps,      *)
(* mergePdfs, splitPdf) together with the split-pdf IPC handler.           *)
(*                                                                         *)
(* A document buffer is the sequence of its pages; a page is a record with *)
(* its identity, rotation flag and raw size, and, once stamped by the      *)
(* document engine, the stamps drawn on it.                                *)
(***************************************************************************)
EXTENDS Integers, Sequences, FiniteSets, TLC

\* ---------------------------------------------------------------- bounds
MaxFiles == 2       \* files opened in one session
MaxPages == 2       \* pages of an opened file
MaxAsync == 1       \* merge/split IPC calls started in one session
MaxChain == 3       \* merge/split IPC calls of a session that awaits each one
MaxRace == 2        \* merge/split IPC calls of a session that does not wait
MaxDocPages == 3    \* pages of a document handed to the document engine
MaxPlacements == 2  \* placements handed to applyStamps

NoId == 0           \* activePieceId === null
Clicks == {<<10, 10>>, <<20, 30>>}   \* document-space click positions
StartChoices == {3}                  \* values typed in the start number input

VARIABLES
    pieces,         \* useState<PieceDocument[]>
    activePieceId,  \* useState<string | null>
    currentPage,    \* useState(1)
    startNumber,    \* useState(1)
    nextNumber,     \* useState(1)
    idCtr,          \* ids handed out by nextId()
    nAsync,         \* merge/split calls started so far
    pending,        \* merge/split calls awaiting their IPC result
    renderedSize,   \* PdfViewer: a page has been rendered since it was mounted
    \* stamp configuration
    lawyerName,     \* useState('')
    bottomText,     \* useState('AVOCAT')
    configLoadedRef,   \* useRef(false)
    saveTimeoutRef, \* the pending debounce timer and the values its closure holds
    configReply,    \* the reply of getStampConfig, until it is delivered
    configFile,     \* stamp-config.json as getConfig() reads it
    \* document engine
    pc,             \* position of the engine call
    call,           \* the call and its arguments
    pdfDoc,         \* applyStamps: the PDFDocument being mutated
    sortedPageIndices, \* applyStamps: the fixed work list
    cursor,         \* applyStamps: position in the work list
    warnings,       \* applyStamps: console.warn calls
    result          \* value returned (or error thrown) by the call

appVars == <<pieces, activePieceId, currentPage, startNumber, nextNumber,
             idCtr, nAsync, pending, renderedSize>>
pdfVars == <<pc, call, pdfDoc, sortedPageIndices, cursor, warnings, result>>
cfgVars == <<lawyerName, bottomText, configLoadedRef, saveTimeoutRef, configReply,
             configFile>>
vars == <<appVars, pdfVars, cfgVars>>

\* ---------------------------------------------------------------- helpers
Min(a, b) == IF a < b THEN a ELSE b
Max(a, b) == IF a > b THEN a ELSE b

Range(s) == {s[i] : i \in 1..Len(s)}

\* Array.prototype.findIndex on the id field: 0-based, -1 when absent
findIndex(ps, id) ==
    IF \E i \in 1..Len(ps) : ps[i].id = id
    THEN (CHOOSE i \in 1..Len(ps) :
            ps[i].id = id /\ \A j \in 1..(i - 1) : ps[j].id # id) - 1
    ELSE -1

\* Array.prototype.find on the id field; only used when the piece exists
find(ps, id) == ps[findIndex(ps, id) + 1]

has(ps, id) == findIndex(ps, id) # -1

\* Array.prototype.splice(start, deleteCount, ...items): a negative start
\* counts from the end, and both arguments are clamped to the array
splice(s, start, deleteCount, items) ==
    LET n  == Len(s)
        st == IF start < 0 THEN Max(n + start, 0) ELSE Min(start, n)
        d  == Min(Max(deleteCount, 0), n - st)
    IN  SubSeq(s, 1, st) \o items \o SubSeq(s, st + d + 1, n)

\* pieces.reduce((sum, p) => sum + p.placements.length, 0)
RECURSIVE totalStamps(_)
totalStamps(ps) ==
    IF ps = <<>> THEN 0 ELSE Len(Head(ps).placements) + totalStamps(Tail(ps))

\* ------------------------------------------------------- recalculateNumbers
RECURSIVE recalcFrom(_, _)
recalcFrom(ps, num) ==
    IF ps = <<>> THEN <<>>
    ELSE LET p == Head(ps)
             n == Len(p.placements)
         IN  <<IF n = 0 THEN p
               ELSE [p EXCEPT !.placements =
                       [j \in 1..n |-> [p.placements[j] EXCEPT !.number = num + j - 1]]]>>
             \o recalcFrom(Tail(ps), num + n)

\* a renumbering whose counter restarts at every piece
recalculateNumbersPerPiece(ps, start) ==
    [i \in 1..Len(ps) |-> Head(recalcFrom(<<ps[i]>>, start))]

recalculateNumbers(ps, start) == recalcFrom(ps, start)

\* ------------------------------------------------------------ pdf-service
RawW == 2                            \* raw page width (page.getSize())
RawH == 3                            \* raw page height

\* a page as stored in a buffer: its content, /Rotate flag and raw size
pageOf(id, rot) == [id |-> id, rot |-> rot, w |-> RawW, h |-> RawH]

\* PDFDocument.save(): pdf-lib adds one blank page to a document without pages
BlankPage == pageOf(0, 0)
save(doc) == IF doc = <<>> THEN <<BlankPage>> ELSE doc

\* PDFDocument.copyPages(src, indices) throws on an index that is not a page
copyPagesOk(doc, indices) == \A i \in Range(indices) : i >= 0 /\ i < Len(doc)
copyPages(doc, indices) == [j \in 1..Len(indices) |-> doc[indices[j] + 1]]

\* Array.from({ length: n }, (_, i) => f + i); a negative length gives []
arrayFrom(n, f) == [i \in 1..Max(n, 0) |-> f + i - 1]

mergePdfsSwapped(buffer1, buffer2) == save(buffer2 \o buffer1)

mergePdfs(buffer1, buffer2) ==
    save(buffer1 \o copyPages(buffer2, arrayFrom(Len(buffer2), 0)))

splitPdfOffByOne(buffer, afterPageIndex) ==
    LET totalPages == Len(buffer)
        indices1 == arrayFrom(afterPageIndex, 0)
        indices2 == arrayFrom(totalPages - afterPageIndex, afterPageIndex)
    IN  IF copyPagesOk(buffer, indices1) /\ copyPagesOk(buffer, indices2)
        THEN [ok |-> TRUE, part1 |-> save(copyPages(buffer, indices1)),
              part2 |-> save(copyPages(buffer, indices2))]
        ELSE [ok |-> FALSE, part1 |-> <<>>, part2 |-> <<>>]

splitPdf(buffer, afterPageIndex) ==
    LET totalPages == Len(buffer)
        indices1 == arrayFrom(afterPageIndex + 1, 0)
        indices2 == arrayFrom(totalPages - afterPageIndex - 1, afterPageIndex + 1)
    IN  IF copyPagesOk(buffer, indices1) /\ copyPagesOk(buffer, indices2)
        THEN [ok |-> TRUE, part1 |-> save(copyPages(buffer, indices1)),
              part2 |-> save(copyPages(buffer, indices2))]
        ELSE [ok |-> FALSE, part1 |-> <<>>, part2 |-> <<>>]

\* ipcMain.handle('split-pdf'): rejects a negative index, then calls splitPdf
ipcSplitPdf(buffer, afterPageIndex) ==
    IF afterPageIndex < 0
    THEN [ok |-> FALSE, part1 |-> <<>>, part2 |-> <<>>]
    ELSE splitPdf(buffer, afterPageIndex)

\* ipcMain.handle('merge-pdfs')
ipcMergePdfs(buffer1, buffer2) == mergePdfs(buffer1, buffer2)

\* ------------------------------------------------------------------ App
activePiece == IF has(pieces, activePieceId) THEN find(pieces, activePieceId) ELSE [id |-> NoId]
hasActivePiece == activePieceId # NoId /\ has(pieces, activePieceId)

\* every handler that edits the list ends with the same three lines:
\*   const renumbered = recalculateNumbers(updated, startNumber)
\*   setNextNumber(startNumber + total); return renumbered
Commit(updated, start) ==
    LET renumbered == recalculateNumbers(updated, start)
    IN  /\ pieces' = renumbered
        /\ nextNumber' = start + totalStamps(renumbered)

\* handleAddFiles: the file dialog is modal, the handler runs undisturbed
handleAddFiles(counts) ==
    /\ idCtr + Len(counts) <= MaxFiles
    /\ LET newPieces == [j \in 1..Len(counts) |->
                           [id |-> idCtr + j,
                            pdfBuffer |-> [q \in 1..counts[j] |-> pageOf((idCtr + j) * 10 + q, 0)],
                            totalPages |-> 0,
                            placements |-> <<>>]]
       IN  /\ pieces' = pieces \o newPieces
           /\ idCtr' = idCtr + Len(counts)
           /\ IF activePieceId = NoId
              THEN activePieceId' = newPieces[1].id /\ currentPage' = 1
              ELSE UNCHANGED <<activePieceId, currentPage>>
    /\ UNCHANGED <<startNumber, nextNumber, nAsync, pending>>

handleSelectPiece(id) ==
    /\ has(pieces, id)
    /\ activePieceId' = id
    /\ currentPage' = 1
    /\ UNCHANGED <<pieces, startNumber, nextNumber, idCtr, nAsync, pending, renderedSize>>

handleReorderPiece(id, direction) ==
    LET idx == findIndex(pieces, id)
        newIdx == IF direction = "up" THEN idx - 1 ELSE idx + 1
    IN  /\ idx # -1
        /\ ~(newIdx < 0 \/ newIdx >= Len(pieces))
        /\ LET copy == [pieces EXCEPT ![idx + 1] = pieces[newIdx + 1],
                                      ![newIdx + 1] = pieces[idx + 1]]
           IN  Commit(copy, startNumber)
        /\ UNCHANGED <<activePieceId, currentPage, startNumber, idCtr, nAsync, pending, renderedSize>>

handleTotalPages(total) ==
    /\ activePieceId # NoId
    /\ pieces' = [i \in 1..Len(pieces) |->
                    IF pieces[i].id = activePieceId
                    THEN [pieces[i] EXCEPT !.totalPages = total]
                    ELSE pieces[i]]
    /\ UNCHANGED <<activePieceId, currentPage, startNumber, nextNumber, idCtr,
                   nAsync, pending>>

\* PdfViewer: the displayed buffer finishes loading (onDocumentLoadSuccess
\* reports its page count) and its page is rendered (onPageRenderSuccess sets
\* renderedSize, which mounts the overlay)
onDocumentLoadSuccess ==
    /\ hasActivePiece
    /\ handleTotalPages(Len(activePiece.pdfBuffer))
    /\ renderedSize' = TRUE

\* PdfViewer is mounted only while there is an active piece; unmounting it
\* drops renderedSize
PdfViewerMount ==
    renderedSize' = (renderedSize /\ activePieceId' # NoId /\ has(pieces', activePieceId'))

\* PageNavigator: the buttons are disabled at the ends
handleNextPage ==
    /\ hasActivePiece
    /\ currentPage < activePiece.totalPages
    /\ currentPage' = Min(currentPage + 1, activePiece.totalPages)
    /\ UNCHANGED <<pieces, activePieceId, startNumber, nextNumber, idCtr, nAsync, pending, renderedSize>>

handlePrevPage ==
    /\ hasActivePiece
    /\ currentPage > 1
    /\ currentPage' = Max(1, currentPage - 1)
    /\ UNCHANGED <<pieces, activePieceId, startNumber, nextNumber, idCtr, nAsync, pending, renderedSize>>

\* the piece handlePlaceStamp leaves in place of p
placeOnAnyPage(p, pageIndex, x, y) ==
    [p EXCEPT !.placements =
        Append(@, [pageIndex |-> pageIndex, x |-> x, y |-> y, number |-> 0])]

placeOn(p, pageIndex, x, y) ==
    IF \E j \in 1..Len(p.placements) : p.placements[j].pageIndex = pageIndex
    THEN [p EXCEPT !.placements =
            [j \in 1..Len(@) |->
                IF @[j].pageIndex = pageIndex
                THEN [@[j] EXCEPT !.x = x, !.y = y] ELSE @[j]]]
    ELSE IF Len(p.placements) = 0
    THEN [p EXCEPT !.placements =
            Append(@, [pageIndex |-> pageIndex, x |-> x, y |-> y, number |-> 0])]
    ELSE p

handlePlaceStamp(pageIndex, x, y) ==
    /\ activePieceId # NoId
    /\ pageIndex = 0
    /\ LET updated == [i \in 1..Len(pieces) |->
                         IF pieces[i].id # activePieceId THEN pieces[i]
                         ELSE placeOn(pieces[i], pageIndex, x, y)]
       IN  Commit(updated, startNumber)
    /\ UNCHANGED <<activePieceId, currentPage, startNumber, idCtr, nAsync, pending, renderedSize>>

\* StampOverlay.handleClick: the overlay is mounted by PdfViewer once a page
\* has been rendered
handleClick(x, y) ==
    /\ hasActivePiece
    /\ renderedSize
    /\ currentPage = 1
    /\ LET placements == activePiece.placements
           hasStampOnPiece == Len(placements) > 0
           hasStampOnPage == \E j \in 1..Len(placements) :
                                placements[j].pageIndex = currentPage - 1
       IN  ~(hasStampOnPiece /\ ~hasStampOnPage)
    /\ handlePlaceStamp(currentPage - 1, x, y)

\* Toolbar: undo and clear are disabled while the active piece has no stamp
handleUndo ==
    /\ hasActivePiece
    /\ Len(activePiece.placements) > 0
    /\ LET updated == [i \in 1..Len(pieces) |->
                         IF pieces[i].id = activePieceId
                         THEN [pieces[i] EXCEPT !.placements = SubSeq(@, 1, Len(@) - 1)]
                         ELSE pieces[i]]
       IN  Commit(updated, startNumber)
    /\ UNCHANGED <<activePieceId, currentPage, startNumber, idCtr, nAsync, pending, renderedSize>>

handleClearStamps ==
    /\ hasActivePiece
    /\ Len(activePiece.placements) > 0
    /\ LET updated == [i \in 1..Len(pieces) |->
                         IF pieces[i].id = activePieceId
                         THEN [pieces[i] EXCEPT !.placements = <<>>]
                         ELSE pieces[i]]
       IN  Commit(updated, startNumber)
    /\ UNCHANGED <<activePieceId, currentPage, startNumber, idCtr, nAsync, pending, renderedSize>>

handleRemovePiece(id) ==
    /\ has(pieces, id)
    /\ LET newList == SelectSeq(pieces, LAMBDA p : p.id # id)
       IN  /\ IF activePieceId = id
              THEN IF Len(newList) > 0
                   THEN activePieceId' = newList[1].id /\ currentPage' = 1
                   ELSE activePieceId' = NoId /\ UNCHANGED currentPage
              ELSE UNCHANGED <<activePieceId, currentPage>>
           /\ Commit(newList, startNumber)
    /\ UNCHANGED <<startNumber, idCtr, nAsync, pending, renderedSize>>

handleStartNumberChange(num) ==
    /\ num # startNumber
    /\ startNumber' = num
    /\ nextNumber' = num
    /\ UNCHANGED <<pieces, activePieceId, currentPage, idCtr, nAsync, pending, renderedSize>>

\* handleMergePieces up to its await: the sidebar passes two adjacent pieces;
\* the closure keeps the pieces, activePieceId and startNumber of this render
startMergeWithin(i, budget) ==
    /\ i \in 1..(Len(pieces) - 1)
    /\ nAsync < budget
    /\ pending' = Append(pending,
          [kind |-> "merge", top |-> find(pieces, pieces[i].id),
           bottom |-> find(pieces, pieces[i + 1].id), k |-> 0,
           startNumber |-> startNumber, activePieceId |-> activePieceId])
    /\ nAsync' = nAsync + 1
    /\ UNCHANGED <<pieces, activePieceId, currentPage, startNumber, nextNumber, idCtr>>

\* handleSplitPiece up to its await: the scissors button exists after every
\* page of the thumbnail but the last
startSplitWithin(i, afterPageIndex, budget) ==
    /\ i \in 1..Len(pieces)
    /\ afterPageIndex >= 0
    /\ afterPageIndex < Len(pieces[i].pdfBuffer) - 1
    /\ nAsync < budget
    /\ pending' = Append(pending,
          [kind |-> "split", top |-> find(pieces, pieces[i].id),
           bottom |-> find(pieces, pieces[i].id), k |-> afterPageIndex,
           startNumber |-> startNumber, activePieceId |-> activePieceId])
    /\ nAsync' = nAsync + 1
    /\ UNCHANGED <<pieces, activePieceId, currentPage, startNumber, nextNumber, idCtr>>

startMerge(i) == startMergeWithin(i, MaxAsync)
startSplit(i, afterPageIndex) == startSplitWithin(i, afterPageIndex, MaxAsync)

dropPending(i) == SubSeq(pending, 1, i - 1) \o SubSeq(pending, i + 1, Len(pending))

\* the page count handleMergePieces offsets the bottom placements by
topPagesOf(topPiece) == topPiece.totalPages

\* handleMergePieces after its await
completeMerge(i) ==
    /\ i \in 1..Len(pending)
    /\ pending[i].kind = "merge"
    /\ LET c == pending[i]
           topPiece == c.top
           bottomPiece == c.bottom
           mergedBuffer == ipcMergePdfs(topPiece.pdfBuffer, bottomPiece.pdfBuffer)
           topPages == topPagesOf(topPiece)
           adjustedPlacements ==
               [j \in 1..Len(bottomPiece.placements) |->
                   [bottomPiece.placements[j] EXCEPT !.pageIndex = @ + topPages]]
           mergedPlacements == topPiece.placements \o adjustedPlacements
           mergedPiece == [id |-> topPiece.id,
                           pdfBuffer |-> mergedBuffer,
                           totalPages |-> topPiece.totalPages + bottomPiece.totalPages,
                           placements |-> mergedPlacements]
           topIndex == findIndex(pieces, topPiece.id)
           filtered == SelectSeq(pieces,
                          LAMBDA p : p.id # topPiece.id /\ p.id # bottomPiece.id)
           newPieces == splice(filtered, topIndex, 0, <<mergedPiece>>)
           renumbered == recalculateNumbers(newPieces, c.startNumber)
       IN  /\ pieces' = renumbered
           /\ nextNumber' = c.startNumber + totalStamps(renumbered)
           /\ IF c.activePieceId = topPiece.id \/ c.activePieceId = bottomPiece.id
              THEN activePieceId' = mergedPiece.id /\ currentPage' = 1
              ELSE UNCHANGED <<activePieceId, currentPage>>
    /\ pending' = dropPending(i)
    /\ UNCHANGED <<startNumber, idCtr, nAsync>>

\* the two placement lists handleSplitPiece builds
splitPlacements(placements, afterPageIndex) ==
    LET placements1 == SelectSeq(placements, LAMBDA pl : pl.pageIndex <= afterPageIndex)
        rest == SelectSeq(placements, LAMBDA pl : pl.pageIndex > afterPageIndex)
        placements2 == [j \in 1..Len(rest) |->
                          [rest[j] EXCEPT !.pageIndex = @ - afterPageIndex - 1]]
    IN  <<placements1, placements2>>

\* handleSplitPiece after its await
completeSplit(i) ==
    /\ i \in 1..Len(pending)
    /\ pending[i].kind = "split"
    /\ LET c == pending[i]
           piece == c.top
           afterPageIndex == c.k
           parts == ipcSplitPdf(piece.pdfBuffer, afterPageIndex)
           pls == splitPlacements(piece.placements, afterPageIndex)
           piece1 == [id |-> piece.id,
                      pdfBuffer |-> parts.part1,
                      totalPages |-> afterPageIndex + 1,
                      placements |-> pls[1]]
           piece2 == [id |-> idCtr + 1,
                      pdfBuffer |-> parts.part2,
                      totalPages |-> piece.totalPages - afterPageIndex - 1,
                      placements |-> pls[2]]
           idx == findIndex(pieces, piece.id)
           newPieces == splice(pieces, idx, 1, <<piece1, piece2>>)
           renumbered == recalculateNumbers(newPieces, c.startNumber)
       IN  IF parts.ok
           THEN /\ pieces' = renumbered
                /\ nextNumber' = c.startNumber + totalStamps(renumbered)
                /\ idCtr' = idCtr + 1
                /\ IF c.activePieceId = piece.id
                   THEN activePieceId' = piece1.id /\ currentPage' = 1
                   ELSE UNCHANGED <<activePieceId, currentPage>>
           ELSE \* the IPC call rejected: the catch block only alerts
                UNCHANGED <<pieces, nextNumber, idCtr, activePieceId, currentPage>>
    /\ pending' = dropPending(i)
    /\ UNCHANGED <<startNumber, nAsync>>

\* ------------------------------------------- stamp configuration: state
\* texts are sequences of characters
AVOCAT == <<"A", "V", "O", "C", "A", "T">>

\* String.prototype.slice(start, end) for 0 <= start <= end
slice(str, start, end) == SubSeq(str, start + 1, Min(end, Len(str)))

\* config-store: the defaults every read is merged with
defaults == [lawyerName |-> <<>>, bottomText |-> AVOCAT, startNumber |-> 1]

NoTimer == [set |-> FALSE, lawyerName |-> <<>>, bottomText |-> <<>>, startNumber |-> 0]

\* the configuration is not modelled: nothing is loaded, nothing is saved
InitConfigIdle ==
    /\ lawyerName = <<>>
    /\ bottomText = AVOCAT
    /\ configLoadedRef = FALSE
    /\ saveTimeoutRef = NoTimer
    /\ configReply = [pending |-> FALSE, config |-> defaults]
    /\ configFile = defaults

FileBatches == {<<n>> : n \in 1..MaxPages} \cup {<<n, m>> : n, m \in 1..MaxPages}

InitApp ==
    /\ pieces = <<>>
    /\ activePieceId = NoId
    /\ currentPage = 1
    /\ startNumber = 1
    /\ nextNumber = 1
    /\ idCtr = 0
    /\ nAsync = 0
    /\ pending = <<>>
    /\ renderedSize = FALSE

\* the document engine: no call, no result
NoCall == [fn |-> "none", doc |-> <<>>, doc2 |-> <<>>, k |-> 0, placements |-> <<>>,
           orig |-> <<>>]
NoResult == [ok |-> FALSE, doc |-> <<>>, part1 |-> <<>>, part2 |-> <<>>]

InitPdfIdle ==
    /\ pc = "off"
    /\ call = NoCall
    /\ pdfDoc = <<>>
    /\ sortedPageIndices = <<>>
    /\ cursor = 0
    /\ warnings = 0
    /\ result = NoResult

Init == InitApp /\ InitPdfIdle /\ InitConfigIdle

Next ==
    /\ UNCHANGED <<pdfVars, cfgVars>>
    /\ \/ onDocumentLoadSuccess
       \/ /\ \/ \E counts \in FileBatches : handleAddFiles(counts)
             \/ \E i \in 1..Len(pieces) : handleSelectPiece(pieces[i].id)
             \/ \E i \in 1..Len(pieces), d \in {"up", "down"} :
                    handleReorderPiece(pieces[i].id, d)
             \/ handleNextPage
             \/ handlePrevPage
             \/ \E c \in Clicks : handleClick(c[1], c[2])
             \/ handleUndo
             \/ handleClearStamps
             \/ \E i \in 1..Len(pieces) : handleRemovePiece(pieces[i].id)
             \/ \E n \in StartChoices : handleStartNumberChange(n)
             \/ \E i \in 1..Len(pieces) : startMerge(i)
             \/ \E i \in 1..Len(pieces), k \in 0..(MaxFiles * MaxPages) : startSplit(i, k)
             \/ \E i \in 1..Len(pending) : completeMerge(i)
             \/ \E i \in 1..Len(pending) : completeSplit(i)
          /\ PdfViewerMount

Spec == Init /\ [][Next]_vars

\* A session of a user who stamps, reorders, splits and merges, and waits for
\* each split or merge to finish before doing anything else.
NextChain ==
    /\ UNCHANGED <<pdfVars, cfgVars>>
    /\ \/ pending = <<>> /\ onDocumentLoadSuccess
       \/ /\ \/ /\ pending = <<>>
                /\ \/ \E n \in 1..MaxPages : handleAddFiles(<<n>>)
                   \/ \E c \in Clicks : handleClick(c[1], c[2])
                   \/ \E i \in 1..Len(pieces) : handleReorderPiece(pieces[i].id, "down")
                   \/ \E i \in 1..Len(pieces) : startMergeWithin(i, MaxChain)
                   \/ \E i \in 1..Len(pieces), k \in 0..(MaxFiles * MaxPages) :
                          startSplitWithin(i, k, MaxChain)
             \/ \E i \in 1..Len(pending) : completeMerge(i)
             \/ \E i \in 1..Len(pending) : completeSplit(i)
          /\ PdfViewerMount

SpecChain == Init /\ [][NextChain]_vars

\* A session of a user who does not wait: a merge or split is started while
\* another one is still awaiting its result.
NextRace ==
    /\ UNCHANGED <<pdfVars, cfgVars>>
    /\ \/ onDocumentLoadSuccess
       \/ /\ \/ \E n \in 1..MaxPages : handleAddFiles(<<n>>)
             \/ \E i \in 1..Len(pieces), d \in {"up", "down"} :
                    handleReorderPiece(pieces[i].id, d)
             \/ \E i \in 1..Len(pieces) : handleSelectPiece(pieces[i].id)
             \/ \E i \in 1..Len(pieces) : startMergeWithin(i, MaxRace)
             \/ \E i \in 1..Len(pieces), k \in 0..(MaxFiles * MaxPages) :
                    startSplitWithin(i, k, MaxRace)
             \/ \E i \in 1..Len(pending) : completeMerge(i)
             \/ \E i \in 1..Len(pending) : completeSplit(i)
          /\ PdfViewerMount

SpecRace == Init /\ [][NextRace]_vars

\* ------------------------------------------------------ stamp configuration
\* setConfig: every key of partial replaces the stored one
setConfig(current, partial) ==
    [current EXCEPT !.lawyerName = partial.lawyerName,
                    !.bottomText = partial.bottomText,
                    !.startNumber = partial.startNumber]

\* ipcMain.handle('get-stamp-config')
ipcGetStampConfig(file) ==
    [lawyerName |-> file.lawyerName, bottomText |-> file.bottomText,
     startNumber |-> file.startNumber]

\* ipcMain.handle('save-stamp-config'): the renderer sends two strings and a
\* number (an integer here, so Math.floor is the identity); the values are
\* cut and clamped before they are stored
ipcSaveStampConfig(file, config) ==
    setConfig(file, [lawyerName |-> slice(config.lawyerName, 0, 200),
                     bottomText |-> slice(config.bottomText, 0, 200),
                     startNumber |-> Max(1, Min(99999, config.startNumber))])

\* parseInt of the value of the number input: an optional sign and the
\* leading digits; NaN when there is no digit
Digits == <<"0", "1", "2", "3", "4", "5", "6", "7", "8", "9">>
isDigit(c) == \E d \in 1..10 : Digits[d] = c
digit(c) == (CHOOSE d \in 1..10 : Digits[d] = c) - 1
RECURSIVE leadingDigits(_, _)
leadingDigits(str, acc) ==
    IF str = <<>> \/ ~isDigit(Head(str)) THEN acc
    ELSE leadingDigits(Tail(str), acc * 10 + digit(Head(str)))
parseInt(str) ==
    LET signed == str # <<>> /\ Head(str) \in {"-", "+"}
        body == IF signed THEN Tail(str) ELSE str
        magnitude == leadingDigits(body, 0)
    IN  IF body = <<>> \/ ~isDigit(Head(body)) THEN [nan |-> TRUE, value |-> 0]
        ELSE [nan |-> FALSE,
              value |-> IF signed /\ Head(str) = "-" THEN -magnitude ELSE magnitude]

\* parseInt(e.target.value) || 1
parseIntOr1(str) ==
    LET n == parseInt(str) IN IF n.nan \/ n.value = 0 THEN 1 ELSE n.value

\* the debounced save effect, run after a render in which one of lawyerName,
\* bottomText, startNumber has changed: it returns early until the
\* configuration is loaded, else replaces the pending timer
saveEffect ==
    IF /\ <<lawyerName', bottomText', startNumber'>> # <<lawyerName, bottomText, startNumber>>
       /\ configLoadedRef'
    THEN saveTimeoutRef' = [set |-> TRUE, lawyerName |-> lawyerName',
                            bottomText |-> bottomText', startNumber |-> startNumber']
    ELSE UNCHANGED saveTimeoutRef

\* the timer fires: window.electronAPI.saveStampConfig({...})
saveTimeoutFires ==
    /\ saveTimeoutRef.set
    /\ configFile' = ipcSaveStampConfig(configFile,
                        [lawyerName |-> saveTimeoutRef.lawyerName,
                         bottomText |-> saveTimeoutRef.bottomText,
                         startNumber |-> saveTimeoutRef.startNumber])
    /\ saveTimeoutRef' = NoTimer
    /\ UNCHANGED <<appVars, lawyerName, bottomText, configLoadedRef, configReply>>

\* the mount effect: getStampConfig().then(...)
getStampConfigThen ==
    /\ configReply.pending
    /\ LET config == configReply.config
       IN  /\ lawyerName' = IF config.lawyerName # <<>> THEN config.lawyerName ELSE lawyerName
           /\ bottomText' = IF config.bottomText # <<>> THEN config.bottomText ELSE bottomText
           /\ IF config.startNumber # 0 /\ config.startNumber >= 1
              THEN startNumber' = config.startNumber /\ nextNumber' = config.startNumber
              ELSE UNCHANGED <<startNumber, nextNumber>>
    /\ configLoadedRef' = TRUE
    /\ configReply' = [configReply EXCEPT !.pending = FALSE]
    /\ UNCHANGED <<pieces, activePieceId, currentPage, idCtr, nAsync, pending, renderedSize,
                   configFile>>
    /\ saveEffect

\* StampConfigurator: the two text inputs and the number input
onLawyerNameChange(value) ==
    /\ value # lawyerName
    /\ lawyerName' = value
    /\ UNCHANGED <<appVars, bottomText, configLoadedRef, configReply, configFile>>
    /\ saveEffect

onBottomTextChange(value) ==
    /\ value # bottomText
    /\ bottomText' = value
    /\ UNCHANGED <<appVars, lawyerName, configLoadedRef, configReply, configFile>>
    /\ saveEffect

onStartNumberChange(value) ==
    /\ handleStartNumberChange(parseIntOr1(value))
    /\ UNCHANGED <<lawyerName, bottomText, configLoadedRef, configReply, configFile>>
    /\ saveEffect

\* what the user types and what stamp-config.json holds at startup
TypedNames == {<<"M", "e">>}
TypedTexts == {<<>>, <<"B">>}
TypedNumbers == {<<>>, <<"0">>, <<"-", "2">>, <<"2", ".", "5">>}
StoredNumbers == {4, -2}
ConfigFiles ==
    {[lawyerName |-> l, bottomText |-> b, startNumber |-> n] :
        l \in {<<>>, <<"M", "e">>}, b \in {AVOCAT, <<>>}, n \in StoredNumbers}

InitConfig ==
    /\ InitApp
    /\ InitPdfIdle
    /\ lawyerName = <<>>
    /\ bottomText = AVOCAT
    /\ configLoadedRef = FALSE
    /\ saveTimeoutRef = NoTimer
    /\ configFile \in ConfigFiles
    /\ configReply = [pending |-> TRUE, config |-> ipcGetStampConfig(configFile)]

NextConfig ==
    /\ UNCHANGED pdfVars
    /\ \/ getStampConfigThen
       \/ \E value \in TypedNames : onLawyerNameChange(value)
       \/ \E value \in TypedTexts : onBottomTextChange(value)
       \/ \E value \in TypedNumbers : onStartNumberChange(value)
       \/ saveTimeoutFires
       \/ onDocumentLoadSuccess /\ UNCHANGED cfgVars
       \/ /\ \/ pieces = <<>> /\ handleAddFiles(<<1>>)
             \/ \E c \in Clicks : handleClick(c[1], c[2])
          /\ PdfViewerMount
          /\ UNCHANGED cfgVars

SpecConfig == InitConfig /\ [][NextConfig]_vars

\* -------------------------------------------------------------- applyStamps
Rotations == {0, 90, 180, 270, 45, 360, -90}   \* /Rotate values of the input pages
\* PDFDocument.load: every page as it is stored in the buffer
load(buffer) ==
    [i \in 1..Len(buffer) |->
        [id |-> buffer[i].id, rot |-> buffer[i].rot, w |-> buffer[i].w, h |-> buffer[i].h,
         rebuilt |-> FALSE, drawPage |-> <<>>, stamps |-> <<>>]]

\* the keys of placementsByPage, in insertion order
RECURSIVE keysOf(_)
keysOf(placements) ==
    IF placements = <<>> THEN <<>>
    ELSE LET rest == keysOf(SubSeq(placements, 1, Len(placements) - 1))
             key == placements[Len(placements)].pageIndex
         IN  IF key \in Range(rest) THEN rest ELSE Append(rest, key)

\* placementsByPage.get(pageIndex)
placementsOn(placements, pageIndex) ==
    SelectSeq(placements, LAMBDA pl : pl.pageIndex = pageIndex)

\* keys.sort((a, b) => b - a)
RECURSIVE insertDesc(_, _)
insertDesc(sorted, key) ==
    IF sorted = <<>> THEN <<key>>
    ELSE IF key > Head(sorted) THEN <<key>> \o sorted
    ELSE <<Head(sorted)>> \o insertDesc(Tail(sorted), key)

RECURSIVE sortDesc(_)
sortDesc(keys) ==
    IF keys = <<>> THEN <<>>
    ELSE insertDesc(sortDesc(SubSeq(keys, 1, Len(keys) - 1)), keys[Len(keys)])

sortedIndicesUnsorted(placements) == keysOf(placements)

sortedIndices(placements) == sortDesc(keysOf(placements))

\* PDFDocument.getPage(index) throws when index is not a page of the document
isPage(doc, index) == index >= 0 /\ index < Len(doc)

\* sortedPageIndices.some((idx) => pdfDoc.getPage(idx).getRotation().angle !== 0)
\* "throws" when getPage throws before a rotated page is found
RECURSIVE someRotated(_, _)
someRotated(doc, indices) ==
    IF indices = <<>> THEN "false"
    ELSE IF ~isPage(doc, Head(indices)) THEN "throws"
    ELSE IF doc[Head(indices) + 1].rot # 0 THEN "true"
    ELSE someRotated(doc, Tail(indices))

\* drawStampOnPage for every placement of the page; the radius is scaled by
\* the short side of the page that is drawn on
drawStamps(page, pagePlacements, shortSide) ==
    [page EXCEPT !.stamps = @ \o
        [j \in 1..Len(pagePlacements) |->
            [x |-> pagePlacements[j].x, y |-> pagePlacements[j].y,
             number |-> pagePlacements[j].number, shortSide |-> shortSide]]]

\* the options of newPage.drawPage(embeddedPage, ...) chosen by the switch:
\* <<x, y, rotate>>, rotate in degrees counter-clockwise
drawPageOptionsUntranslated(rawW, rawH, rotation) ==
    CASE rotation = 90  -> <<0, 0, -90>>
      [] rotation = 180 -> <<0, 0, -180>>
      [] rotation = 270 -> <<0, 0, 90>>
      [] OTHER          -> <<0, 0, 0>>
drawPageOptions(rawW, rawH, rotation) ==
    CASE rotation = 90  -> <<0, rawW, -90>>
      [] rotation = 180 -> <<rawW, rawH, -180>>
      [] rotation = 270 -> <<rawH, 0, 90>>
      [] OTHER          -> <<0, 0, 0>>

\* cos and sin of a multiple of 90 degrees
cosDeg(deg) == CASE deg % 360 = 0 -> 1 [] deg % 360 = 180 -> -1 [] OTHER -> 0
sinDeg(deg) == CASE deg % 360 = 90 -> 1 [] deg % 360 = 270 -> -1 [] OTHER -> 0

\* where drawPage paints the point (px, py) of the embedded page:
\* translate(x, y), then rotate counter-clockwise by options[3]
drawnAt(options, px, py) ==
    <<options[1] + px * cosDeg(options[3]) - py * sinDeg(options[3]),
      options[2] + px * sinDeg(options[3]) + py * cosDeg(options[3])>>

\* console.warn in the default branch of the switch: warnings added for a page
warnsNever(rotation) == 0
warnsOn(rotation) == IF rotation \in {0, 90, 180, 270} THEN 0 ELSE 1

\* the replacement of a rotated page: the embedded source page drawn on a
\* blank page of the visual size
rebuildRawSize(srcPage, page, rotation) ==
    [id |-> srcPage.id, rot |-> 0, w |-> page.w, h |-> page.h, rebuilt |-> TRUE,
     drawPage |-> drawPageOptions(page.w, page.h, rotation), stamps |-> <<>>]
rebuild(srcPage, page, rotation) ==
    LET rawW == page.w
        rawH == page.h
        isSwapped == rotation = 90 \/ rotation = 270
        visualW == IF isSwapped THEN rawH ELSE rawW
        visualH == IF isSwapped THEN rawW ELSE rawH
    IN  [id |-> srcPage.id, rot |-> 0, w |-> visualW, h |-> visualH, rebuilt |-> TRUE,
         drawPage |-> drawPageOptions(rawW, rawH, rotation),
         stamps |-> <<>>]

\* pdfDoc.removePage(index)
removePage(doc, index) == SubSeq(doc, 1, index) \o SubSeq(doc, index + 2, Len(doc))
\* pdfDoc.insertPage(index, page)
insertPageAtEnd(doc, index, page) == Append(doc, page)
insertPage(doc, index, page) ==
    SubSeq(doc, 1, index) \o <<page>> \o SubSeq(doc, index + 1, Len(doc))

\* one iteration of the for loop of applyStamps
stampPage(doc, srcDoc, placements, pageIndex) ==
    LET pagePlacements == placementsOn(placements, pageIndex)
        page == doc[pageIndex + 1]
        rotation == page.rot
    IN  IF rotation = 0
        THEN [doc EXCEPT ![pageIndex + 1] = drawStamps(page, pagePlacements, Min(page.w, page.h))]
        ELSE LET newPage == rebuild(srcDoc[pageIndex + 1], page, rotation)
                 stamped == drawStamps(newPage, pagePlacements, Min(newPage.w, newPage.h))
             IN  insertPage(removePage(doc, pageIndex), pageIndex, stamped)

\* applyStamps up to the loop: load, group, sort, look for rotated pages
applyStampsBegin ==
    /\ pc = "start"
    /\ call.fn = "applyStamps"
    /\ pdfDoc' = load(call.doc)
    /\ sortedPageIndices' = sortedIndices(call.placements)
    /\ cursor' = 1
    /\ IF someRotated(load(call.doc), sortedIndices(call.placements)) = "throws"
       THEN pc' = "failed"
       ELSE pc' = "loop"
    /\ UNCHANGED <<call, warnings, result>>

\* one page of the work list
applyStampsPage ==
    /\ pc = "loop"
    /\ cursor <= Len(sortedPageIndices)
    /\ LET pageIndex == sortedPageIndices[cursor]
       IN  IF ~isPage(pdfDoc, pageIndex)
           THEN /\ pc' = "failed"
                /\ UNCHANGED <<pdfDoc, cursor, warnings>>
           ELSE /\ pdfDoc' = stampPage(pdfDoc, load(call.doc), call.placements, pageIndex)
                /\ cursor' = cursor + 1
                /\ warnings' = warnings + warnsOn(pdfDoc[pageIndex + 1].rot)
                /\ pc' = "loop"
    /\ UNCHANGED <<call, sortedPageIndices, result>>

\* return await pdfDoc.save()
applyStampsSave ==
    /\ pc = "loop"
    /\ cursor > Len(sortedPageIndices)
    /\ result' = [NoResult EXCEPT !.ok = TRUE, !.doc = save(pdfDoc)]
    /\ pc' = "done"
    /\ UNCHANGED <<call, pdfDoc, sortedPageIndices, cursor, warnings>>

\* a call of mergePdfs
callMergePdfs ==
    /\ pc = "start"
    /\ call.fn = "mergePdfs"
    /\ result' = [NoResult EXCEPT !.ok = TRUE, !.doc = mergePdfs(call.doc, call.doc2)]
    /\ pc' = "done"
    /\ UNCHANGED <<call, pdfDoc, sortedPageIndices, cursor, warnings>>

\* a direct call of splitPdf
callSplitPdf ==
    /\ pc = "start"
    /\ call.fn = "splitPdf"
    /\ LET r == splitPdf(call.doc, call.k)
       IN  result' = [NoResult EXCEPT !.ok = r.ok, !.part1 = r.part1, !.part2 = r.part2]
    /\ pc' = "done"
    /\ UNCHANGED <<call, pdfDoc, sortedPageIndices, cursor, warnings>>

\* a call through ipcMain.handle('split-pdf')
callIpcSplitPdf ==
    /\ pc = "start"
    /\ call.fn = "split-pdf"
    /\ LET r == ipcSplitPdf(call.doc, call.k)
       IN  result' = [NoResult EXCEPT !.ok = r.ok, !.part1 = r.part1, !.part2 = r.part2]
    /\ pc' = "done"
    /\ UNCHANGED <<call, pdfDoc, sortedPageIndices, cursor, warnings>>

\* the two parts of a finished split are handed to mergePdfs
callMergeParts ==
    /\ pc = "done"
    /\ call.fn \in {"splitPdf", "split-pdf"}
    /\ result.ok
    /\ call' = [NoCall EXCEPT !.fn = "mergePdfs", !.doc = result.part1,
                              !.doc2 = result.part2, !.orig = call.doc, !.k = call.k]
    /\ result' = NoResult
    /\ pc' = "start"
    /\ UNCHANGED <<pdfDoc, sortedPageIndices, cursor, warnings>>

\* documents handed to the engine
PlainDoc(first, n) == [i \in 1..n |-> pageOf(first + i - 1, 0)]
RECURSIVE DocsOfLen(_)
DocsOfLen(n) ==
    IF n = 0 THEN {<<>>}
    ELSE {Append(d, pageOf(n, r)) : d \in DocsOfLen(n - 1), r \in Rotations}
RECURSIVE PlacementLists(_, _)
PlacementLists(n, indices) ==
    IF n = 0 THEN {<<>>}
    ELSE {Append(l, [pageIndex |-> i, x |-> 10, y |-> 10 * n, number |-> n]) :
             l \in PlacementLists(n - 1, indices), i \in indices}

ApplyCalls ==
    {[NoCall EXCEPT !.fn = "applyStamps", !.doc = d, !.placements = l] :
        d \in UNION {DocsOfLen(n) : n \in 1..MaxDocPages},
        l \in UNION {PlacementLists(n, -1..(MaxDocPages - 1)) : n \in 0..MaxPlacements}}
MergeCalls ==
    {[NoCall EXCEPT !.fn = "mergePdfs", !.doc = PlainDoc(1, p), !.doc2 = PlainDoc(101, q)] :
        p \in 1..MaxDocPages, q \in 1..MaxDocPages}
SplitCalls ==
    {[NoCall EXCEPT !.fn = f, !.doc = PlainDoc(1, p), !.k = k] :
        f \in {"splitPdf", "split-pdf"}, p \in 1..MaxDocPages, k \in -2..(MaxDocPages + 1)}

InitAppIdle ==
    /\ pieces = <<>>
    /\ activePieceId = NoId
    /\ currentPage = 1
    /\ startNumber = 1
    /\ nextNumber = 1
    /\ idCtr = 0
    /\ nAsync = 0
    /\ pending = <<>>
    /\ renderedSize = FALSE
    /\ InitConfigIdle

InitPdf ==
    /\ InitAppIdle
    /\ pc = "start"
    /\ call \in ApplyCalls \cup MergeCalls \cup SplitCalls
    /\ pdfDoc = <<>>
    /\ sortedPageIndices = <<>>
    /\ cursor = 0
    /\ warnings = 0
    /\ result = NoResult

NextPdf ==
    /\ UNCHANGED <<appVars, cfgVars>>
    /\ \/ applyStampsBegin
       \/ applyStampsPage
       \/ applyStampsSave
       \/ callMergePdfs
       \/ callSplitPdf
       \/ callIpcSplitPdf
       \/ callMergeParts

SpecPdf == InitPdf /\ [][NextPdf]_vars

\* ------------------------------------------------ recalculateNumbers alone
MaxList == 3        \* pieces of a list handed to recalculateNumbers
Starts == {1, 5}
SomePlacements ==
    {[pageIndex |-> 0, x |-> 10, y |-> 10, number |-> 0],
     [pageIndex |-> 1, x |-> 20, y |-> 30, number |-> 7]}
RECURSIVE PlacementSeqs(_)
PlacementSeqs(n) ==
    IF n = 0 THEN {<<>>}
    ELSE {Append(l, pl) : l \in PlacementSeqs(n - 1), pl \in SomePlacements}
RECURSIVE PieceLists(_)
PieceLists(n) ==
    IF n = 0 THEN {<<>>}
    ELSE {Append(ps, [id |-> n, pdfBuffer |-> <<pageOf(n * 10 + 1, 0)>>, totalPages |-> 1,
                      placements |-> pls]) :
             ps \in PieceLists(n - 1),
             pls \in UNION {PlacementSeqs(m) : m \in 0..MaxPlacements}}

InitRenumber ==
    /\ InitAppIdle
    /\ pc = "start"
    /\ \E ps \in UNION {PieceLists(n) : n \in 0..MaxList}, start \in Starts :
          call = [NoCall EXCEPT !.fn = "recalculateNumbers", !.doc = ps, !.k = start]
    /\ pdfDoc = <<>>
    /\ sortedPageIndices = <<>>
    /\ cursor = 0
    /\ warnings = 0
    /\ result = NoResult

callRecalculateNumbers ==
    /\ pc = "start"
    /\ call.fn = "recalculateNumbers"
    /\ result' = [NoResult EXCEPT !.ok = TRUE, !.doc = recalculateNumbers(call.doc, call.k)]
    /\ pc' = "done"
    /\ UNCHANGED <<call, pdfDoc, sortedPageIndices, cursor, warnings>>

NextRenumber == callRecalculateNumbers /\ UNCHANGED <<appVars, cfgVars>>

SpecRenumber == InitRenumber /\ [][NextRenumber]_vars

\* ------------------------------------------------------- coordinate-mapper
\* JavaScript numbers as exact fractions <<numerator, denominator>>,
\* denominator > 0; rounding is not modelled
num(n) == <<n, 1>>
sub(a, b) == <<a[1] * b[2] - b[1] * a[2], a[2] * b[2]>>
mul(a, b) == <<a[1] * b[1], a[2] * b[2]>>
div(a, b) == IF b[1] > 0 THEN <<a[1] * b[2], a[2] * b[1]>>
                         ELSE <<-(a[1] * b[2]), -(a[2] * b[1])>>
eq(a, b) == a[1] * b[2] = b[1] * a[2]
le(a, b) == a[1] * b[2] <= b[1] * a[2]

screenToPdfNoFlip(mouseX, mouseY, containerRect, pdfPageWidth, pdfPageHeight, displayWidth, displayHeight) ==
    [x |-> mul(div(sub(mouseX, containerRect.left), displayWidth), pdfPageWidth),
     y |-> mul(div(sub(mouseY, containerRect.top), displayHeight), pdfPageHeight)]

screenToPdf(mouseX, mouseY, containerRect, pdfPageWidth, pdfPageHeight, displayWidth, displayHeight) ==
    LET relX == sub(mouseX, containerRect.left)
        relY == sub(mouseY, containerRect.top)
        normX == div(relX, displayWidth)
        normY == div(relY, displayHeight)
    IN  [x |-> mul(normX, pdfPageWidth),
         y |-> mul(sub(num(1), normY), pdfPageHeight)]

pdfToScreenNoFlip(pdfX, pdfY, pdfPageWidth, pdfPageHeight, displayWidth, displayHeight) ==
    [x |-> mul(div(pdfX, pdfPageWidth), displayWidth),
     y |-> mul(div(pdfY, pdfPageHeight), displayHeight)]

pdfToScreen(pdfX, pdfY, pdfPageWidth, pdfPageHeight, displayWidth, displayHeight) ==
    LET normX == div(pdfX, pdfPageWidth)
        normY == div(pdfY, pdfPageHeight)
    IN  [x |-> mul(normX, displayWidth),
         y |-> mul(sub(num(1), normY), displayHeight)]

\* the overlay: its bounding rectangle has the display size (style width and
\* height) and sits anywhere in the window
DisplaySizes == {<<4, 6>>, <<7, 5>>}
PageSizes == {<<3, 5>>, <<8, 6>>}
RectOffsets == {<<0, 0>>, <<1, 0>>, <<0, 2>>, <<3, 2>>}

MapperCalls ==
    {[fn |-> "screenToPdf",
      mouse |-> <<mx, my>>,
      rect |-> [left |-> o[1], top |-> o[2], width |-> d[1], height |-> d[2]],
      page |-> pg,
      display |-> d] :
        <<d, pg, o, mx, my>> \in
            {<<d, pg, o, mx, my>> \in
                DisplaySizes \X PageSizes \X RectOffsets \X (0..10) \X (0..8) :
                    /\ mx >= o[1] /\ mx <= o[1] + d[1]
                    /\ my >= o[2] /\ my <= o[2] + d[2]}}

InitMapper ==
    /\ InitAppIdle
    /\ pc = "start"
    /\ call \in MapperCalls
    /\ pdfDoc = <<>>
    /\ sortedPageIndices = <<>>
    /\ cursor = 0
    /\ warnings = 0
    /\ result = [pdf |-> [x |-> num(0), y |-> num(0)], screen |-> [x |-> num(0), y |-> num(0)]]

\* StampOverlay.handleClick: the click is converted to page coordinates
callScreenToPdf ==
    /\ pc = "start"
    /\ call.fn = "screenToPdf"
    /\ result' = [result EXCEPT !.pdf =
                     screenToPdf(num(call.mouse[1]), num(call.mouse[2]),
                                 [left |-> num(call.rect.left), top |-> num(call.rect.top)],
                                 num(call.page[1]), num(call.page[2]),
                                 num(call.display[1]), num(call.display[2]))]
    /\ pc' = "placed"
    /\ UNCHANGED <<call, pdfDoc, sortedPageIndices, cursor, warnings>>

\* StampOverlay render: the placement is positioned inside the overlay
callPdfToScreen ==
    /\ pc = "placed"
    /\ call.fn = "screenToPdf"
    /\ result' = [result EXCEPT !.screen =
                     pdfToScreen(result.pdf.x, result.pdf.y,
                                 num(call.page[1]), num(call.page[2]),
                                 num(call.display[1]), num(call.display[2]))]
    /\ pc' = "done"
    /\ UNCHANGED <<call, pdfDoc, sortedPageIndices, cursor, warnings>>

NextMapper == (callScreenToPdf \/ callPdfToScreen) /\ UNCHANGED <<appVars, cfgVars>>

SpecMapper == InitMapper /\ [][NextMapper]_vars

\* ------------------------------------------------------------ curved text
\* Units: font sizes and the radius in hundredths of a point, glyph widths of
\* the font in thousandths of the font size, angles in milliradians.  A width
\* at a font size is kept multiplied by 1000 so that it stays an integer.
MaxText == 3                          \* glyphs of a text
Attempts == 20                        \* for (let attempt = 0; attempt < 20; attempt++)
Glyphs == {"I", "M"}
TimesRomanBold == [c \in Glyphs |-> IF c = "I" THEN 389 ELSE 944]

\* font.widthOfTextAtSize(c, fontSize), times 1000
widthOfTextAtSize(font, c, fontSize) == font[c] * fontSize

\* fontSize * 0.08, times 1000
spacingAt(fontSize) == fontSize * 80

\* chars.reduce((sum, c) => sum + font.widthOfTextAtSize(c, fontSize), 0)
RECURSIVE sumWidths(_, _, _)
sumWidths(font, chars, fontSize) ==
    IF chars = <<>> THEN 0
    ELSE widthOfTextAtSize(font, Head(chars), fontSize) + sumWidths(font, Tail(chars), fontSize)

\* totalWidth of a text at a font size, times 1000
totalWidthAt(font, chars, fontSize) ==
    sumWidths(font, chars, fontSize) + spacingAt(fontSize) * (Len(chars) - 1)

\* totalAngle <= maxAngle, with totalAngle = totalWidth / radius
fitsArc(font, chars, fontSize, radius, maxAngle) ==
    totalWidthAt(font, chars, fontSize) <= maxAngle * radius

\* fontSize *= 0.9
grow(fontSize) == (fontSize * 11) \div 10
shrink(fontSize) == (fontSize * 9) \div 10

\* the loop of fitFontSize from a given attempt on: the size it ends with and
\* the sizes it has tested on the way
RECURSIVE fitLoop(_, _, _, _, _, _)
fitLoop(font, chars, fontSize, radius, maxAngle, attempt) ==
    IF attempt >= Attempts THEN [fontSize |-> fontSize, tested |-> <<>>]
    ELSE IF fitsArc(font, chars, fontSize, radius, maxAngle)
         THEN [fontSize |-> fontSize, tested |-> <<fontSize>>]
         ELSE LET rest == fitLoop(font, chars, shrink(fontSize), radius, maxAngle, attempt + 1)
              IN  [fontSize |-> rest.fontSize, tested |-> <<fontSize>> \o rest.tested]

fitFontSize(font, text, maxFontSize, radius, maxAngle) ==
    fitLoop(font, text, maxFontSize, radius, maxAngle, 0).fontSize

\* An angle of drawCurvedText: quarter * PI / 2 + half / (2 * 1000 * radius),
\* so that half a glyph's angle is an integer.
\* the glyphs drawCurvedText draws, in reading order: the character, its
\* width (times 1000), the angle of its centre and its rotation (rotRad)
RECURSIVE curveFrom(_, _, _, _, _)
curveFrom(font, chars, fontSize, currentAngle, isTop) ==
    IF chars = <<>> THEN <<>>
    ELSE LET width == widthOfTextAtSize(font, Head(chars), fontSize)
             charAngleHalf == width + spacingAt(fontSize)
             centre == IF isTop THEN currentAngle - charAngleHalf
                                ELSE currentAngle + charAngleHalf
             after == IF isTop THEN centre - charAngleHalf ELSE centre + charAngleHalf
             quarter == IF isTop THEN 1 ELSE -1
         IN  <<[char |-> Head(chars), width |-> width,
                angle |-> [quarter |-> quarter, half |-> centre],
                rot |-> [quarter |-> IF isTop THEN quarter - 1 ELSE quarter + 1,
                         half |-> centre]]>>
             \o curveFrom(font, Tail(chars), fontSize, after, isTop)

drawCurvedText(font, text, fontSize, radius, isTop) ==
    LET totalAngleHalf == totalWidthAt(font, text, fontSize)
    IN  curveFrom(font, text, fontSize,
                  IF isTop THEN totalAngleHalf ELSE -totalAngleHalf, isTop)

\* stamp-renderer: ctx.measureText(c).width with the font set to fontSize,
\* times 1000; the canvas font has the glyph widths of the embedded font
measureText(font, c, fontSize) == font[c] * fontSize

\* the glyphs drawCurvedTextOnCanvas draws: the angle of ctx.translate and
\* the angle of ctx.rotate
RECURSIVE canvasFrom(_, _, _, _, _)
canvasFrom(font, chars, fontSize, currentAngle, isTop) ==
    IF chars = <<>> THEN <<>>
    ELSE LET width == measureText(font, Head(chars), fontSize)
             charAngleHalf == width + spacingAt(fontSize)
             centre == IF isTop THEN currentAngle + charAngleHalf
                                ELSE currentAngle - charAngleHalf
             after == IF isTop THEN centre + charAngleHalf ELSE centre - charAngleHalf
             quarter == IF isTop THEN -1 ELSE 1
         IN  <<[char |-> Head(chars), width |-> width,
                angle |-> [quarter |-> quarter, half |-> centre],
                rot |-> [quarter |-> IF isTop THEN quarter + 1 ELSE quarter - 1,
                         half |-> centre]]>>
             \o canvasFrom(font, Tail(chars), fontSize, after, isTop)

drawCurvedTextOnCanvasUnmirrored(font, text, fontSize, radius, isTop) ==
    drawCurvedText(font, text, fontSize, radius, isTop)

drawCurvedTextOnCanvas(font, text, fontSize, radius, isTop) ==
    LET totalAngleHalf ==
            sumWidths(font, text, fontSize) + spacingAt(fontSize) * (Len(text) - 1)
    IN  canvasFrom(font, text, fontSize,
                   IF isTop THEN -totalAngleHalf ELSE totalAngleHalf, isTop)

\* the texts, sizes and arcs handed to the two functions
RECURSIVE Texts(_)
Texts(n) ==
    IF n = 0 THEN {<<>>}
    ELSE Texts(n - 1) \cup {Append(t, c) : t \in Texts(n - 1), c \in Glyphs}
FontSizes == {1400, 900}
Arcs == {[radius |-> 6500, maxAngle |-> 2000],
         [radius |-> 6500, maxAngle |-> 300],
         [radius |-> 1000, maxAngle |-> 100]}

FitCalls ==
    {[fn |-> "fitFontSize", text |-> t, maxFontSize |-> f, radius |-> a.radius,
      maxAngle |-> a.maxAngle] : t \in Texts(MaxText), f \in FontSizes, a \in Arcs}
CurveCalls ==
    {[fn |-> "drawCurvedText", text |-> t, fontSize |-> f, radius |-> a.radius,
      isTop |-> b] : t \in Texts(MaxText), f \in FontSizes, a \in Arcs, b \in BOOLEAN}

InitText ==
    /\ InitAppIdle
    /\ pc = "start"
    /\ call \in FitCalls \cup CurveCalls
    /\ pdfDoc = <<>>
    /\ sortedPageIndices = <<>>
    /\ cursor = 0
    /\ warnings = 0
    /\ result = [fontSize |-> 0, tested |-> <<>>, glyphs |-> <<>>, canvas |-> <<>>]

callFitFontSize ==
    /\ pc = "start"
    /\ call.fn = "fitFontSize"
    /\ result' = [result EXCEPT
                     !.fontSize = fitFontSize(TimesRomanBold, call.text, call.maxFontSize,
                                              call.radius, call.maxAngle),
                     !.tested = fitLoop(TimesRomanBold, call.text, call.maxFontSize,
                                        call.radius, call.maxAngle, 0).tested]
    /\ pc' = "done"
    /\ UNCHANGED <<call, pdfDoc, sortedPageIndices, cursor, warnings>>

callDrawCurvedText ==
    /\ pc = "start"
    /\ call.fn = "drawCurvedText"
    /\ result' = [result EXCEPT
                     !.glyphs = drawCurvedText(TimesRomanBold, call.text, call.fontSize,
                                               call.radius, call.isTop)]
    /\ pc' = "done"
    /\ UNCHANGED <<call, pdfDoc, sortedPageIndices, cursor, warnings>>

\* the preview draws the same text, at the same size, on the canvas
callDrawCurvedTextOnCanvas ==
    /\ pc = "done"
    /\ call.fn = "drawCurvedText"
    /\ result' = [result EXCEPT
                     !.canvas = drawCurvedTextOnCanvas(TimesRomanBold, call.text, call.fontSize,
                                                       call.radius, call.isTop)]
    /\ pc' = "previewed"
    /\ UNCHANGED <<call, pdfDoc, sortedPageIndices, cursor, warnings>>

NextText ==
    (callFitFontSize \/ callDrawCurvedText \/ callDrawCurvedTextOnCanvas)
    /\ UNCHANGED <<appVars, cfgVars>>

SpecText == InitText /\ [][NextText]_vars

\* -------------------------------------------------------- sanitizeFileName
MaxName == 4                          \* characters of a short file name
NameLimit == 200                      \* .slice(0, 200)

\* the characters of the names, with their code units
Alphabet == {"a", ".", "/", ":", "\t"}
charCode == [c \in Alphabet \cup {"_"} |->
                CASE c = "a" -> 97 [] c = "." -> 46 [] c = "/" -> 47
                  [] c = ":" -> 58 [] c = "\t" -> 9 [] OTHER -> 95]

\* the class [<>:"/\\|?*\x00-\x1f]
isForbidden(c) ==
    c \in {"<", ">", ":", "\"", "/", "\\", "|", "?", "*"} \/ charCode[c] <= 31

\* .replace(/\.\./g, '_'): the matches are taken from left to right and do
\* not overlap, so a match starts at every even position of a run of dots
dotsBefore(name, i) ==
    LET stops == {j \in 0..(i - 1) : j = 0 \/ name[j] # "."}
    IN  i - 1 - (CHOOSE m \in stops : \A k \in stops : k <= m)
matchStart(name, i) ==
    /\ i >= 1 /\ i < Len(name)
    /\ name[i] = "." /\ name[i + 1] = "."
    /\ dotsBefore(name, i) % 2 = 0
replaceDotDot(name) ==
    LET marked == [i \in 1..Len(name) |->
                      IF matchStart(name, i) THEN "_"
                      ELSE IF matchStart(name, i - 1) THEN "matched"
                      ELSE name[i]]
    IN  SelectSeq(marked, LAMBDA c : c # "matched")

\* .replace(/[<>:"/\\|?*\x00-\x1f]/g, '_')
replaceForbidden(name) ==
    [i \in 1..Len(name) |-> IF isForbidden(name[i]) THEN "_" ELSE name[i]]

sanitizeFileNameCharsOnly(name) ==
    slice(replaceForbidden(name), 0, NameLimit)

sanitizeFileName(name) ==
    slice(replaceForbidden(replaceDotDot(name)), 0, NameLimit)

\* the names handed to the function: every short name, and long names made
\* of a run of 'a' around the limit followed by a short name
RECURSIVE Names(_)
Names(n) ==
    IF n = 0 THEN {<<>>}
    ELSE Names(n - 1) \cup {Append(t, c) : t \in Names(n - 1), c \in Alphabet}
LongNames ==
    {[i \in 1..n |-> "a"] \o t : n \in (NameLimit - 2)..(NameLimit + 1), t \in Names(MaxName - 1)}
SanitizeCalls ==
    {[fn |-> "sanitizeFileName", name |-> t] : t \in Names(MaxName) \cup LongNames}

InitSanitize ==
    /\ InitAppIdle
    /\ pc = "start"
    /\ call \in SanitizeCalls
    /\ pdfDoc = <<>>
    /\ sortedPageIndices = <<>>
    /\ cursor = 0
    /\ warnings = 0
    /\ result = [once |-> <<>>, twice |-> <<>>]

callSanitizeFileName ==
    /\ pc = "start"
    /\ call.fn = "sanitizeFileName"
    /\ result' = [result EXCEPT !.once = sanitizeFileName(call.name)]
    /\ pc' = "again"
    /\ UNCHANGED <<call, pdfDoc, sortedPageIndices, cursor, warnings>>

\* the result is handed to the function once more
callSanitizeFileNameAgain ==
    /\ pc = "again"
    /\ call.fn = "sanitizeFileName"
    /\ result' = [result EXCEPT !.twice = sanitizeFileName(result.once)]
    /\ pc' = "done"
    /\ UNCHANGED <<call, pdfDoc, sortedPageIndices, cursor, warnings>>

NextSanitize ==
    (callSanitizeFileName \/ callSanitizeFileNameAgain) /\ UNCHANGED <<appVars, cfgVars>>

SpecSanitize == InitSanitize /\ [][NextSanitize]_vars

\* ------------------------------------------------ export-all and print-all
MaxJobs == 2                          \* pieces of the list that is exported or printed
stampRadius == 60
SuffixLimit == 1000                   \* while (existsSync(...) && suffix < 1000)

\* a buffer PDFDocument.load rejects
Undecodable == <<"not a pdf">>
isPdf(pdfBuffer) == pdfBuffer # Undecodable

\* the for loop of applyStamps over the whole work list
RECURSIVE stampAll(_, _, _, _)
stampAll(doc, srcDoc, placements, indices) ==
    IF indices = <<>> THEN doc
    ELSE stampAll(stampPage(doc, srcDoc, placements, Head(indices)), srcDoc,
                  placements, Tail(indices))

\* applyStamps as one call: it throws when the buffer cannot be loaded or a
\* placement names a page the document does not have
applyStamps(pdfBuffer, placements) ==
    LET indices == sortedIndices(placements)
    IN  IF ~isPdf(pdfBuffer)
        THEN [ok |-> FALSE, doc |-> <<>>]
        ELSE IF \E k \in 1..Len(indices) : ~isPage(load(pdfBuffer), indices[k])
        THEN [ok |-> FALSE, doc |-> <<>>]
        ELSE [ok |-> TRUE,
              doc |-> save(stampAll(load(pdfBuffer), load(pdfBuffer), placements, indices))]

\* the buffer a handler writes for a piece: stamped when it has placements
finalBufferOf(piece) ==
    IF Len(piece.placements) > 0 THEN applyStamps(piece.buffer, piece.placements)
    ELSE [ok |-> TRUE, doc |-> piece.buffer]

\* validateExportPath: paths are sequences of lower-case components
forbidden == {<<"c:", "windows">>, <<"c:", "program files">>, <<"c:", "program files (x86)">>}
validateExportPath(dir) ==
    ~\E f \in forbidden : Len(dir) >= Len(f) /\ SubSeq(dir, 1, Len(f)) = f

\* the file system: a function from the folders that exist to their files
existsSync(fs, dir) == dir \in DOMAIN fs
mkdir(fs, dir) == IF existsSync(fs, dir) THEN fs ELSE fs @@ (dir :> <<>>)
writeFile(fs, dir, file) == [fs EXCEPT ![dir] = Append(@, file)]
rename(fs, from, to) ==
    [d \in (DOMAIN fs \ {from}) \cup {to} |-> IF d = to THEN fs[from] ELSE fs[d]]
keep(fs, dir) == fs
rm(fs, dir) == [d \in DOMAIN fs \ {dir} |-> fs[d]]

\* DOSSIER_PIECES_DDMMYYYY, with the first free suffix when it exists
folderName(suffix) == <<"DOSSIER_PIECES", suffix>>
RECURSIVE nextSuffix(_, _)
nextSuffix(fs, suffix) ==
    IF existsSync(fs, folderName(suffix)) /\ suffix < SuffixLimit
    THEN nextSuffix(fs, suffix + 1) ELSE suffix
finalDirOf(fs) ==
    IF existsSync(fs, folderName(1)) THEN folderName(nextSuffix(fs, 2)) ELSE folderName(1)
tempDirOf(finalDir) == Append(finalDir, "tmp")

\* piece.fileName.replace(/\.[^.]+$/, ''): the last dot and what follows it,
\* when something follows it
stripExtension(fileName) ==
    LET dots == {i \in 1..Len(fileName) : fileName[i] = "."}
    IN  IF dots = {} THEN fileName
        ELSE LET last == CHOOSE i \in dots : \A j \in dots : j <= i
             IN  IF last = Len(fileName) THEN fileName ELSE SubSeq(fileName, 1, last - 1)

\* `Piece${lawyerPart} n${piece.pieceNumber} - ${baseName}.pdf`
outputNameOf(piece, config) ==
    [lawyerPart |-> config.lawyerName, pieceNumber |-> piece.pieceNumber,
     baseName |-> sanitizeFileName(stripExtension(piece.fileName))]

\* handleExportAll up to its await: the pieces and the configuration it sends
exportPieces(ps, start) ==
    [index \in 1..Len(ps) |->
        [buffer |-> ps[index].pdfBuffer, placements |-> ps[index].placements,
         pieceNumber |-> start + index - 1,
         fileName |-> ps[index].fileName]]

handleExportAll ==
    /\ pc = "renderer"
    /\ Len(pieces) # 0
    /\ call' = [fn |-> "export-all", pieces |-> exportPieces(pieces, startNumber),
                config |-> [lawyerName |-> lawyerName, bottomText |-> bottomText,
                            radius |-> stampRadius],
                baseDir |-> call.exportDir, settings |-> call.settings]
    /\ pc' = "start"
    /\ UNCHANGED <<pdfDoc, sortedPageIndices, cursor, warnings, result>>

\* handlePrintAll up to its await
handlePrintAll ==
    /\ pc = "renderer"
    /\ Len(pieces) # 0
    /\ call' = [fn |-> "print-all",
                pieces |-> [index \in 1..Len(pieces) |->
                              [buffer |-> pieces[index].pdfBuffer,
                               placements |-> pieces[index].placements,
                               fileName |-> pieces[index].fileName]],
                config |-> [lawyerName |-> lawyerName, bottomText |-> bottomText,
                            radius |-> stampRadius],
                baseDir |-> call.exportDir, settings |-> call.settings]
    /\ pc' = "start"
    /\ UNCHANGED <<pdfDoc, sortedPageIndices, cursor, warnings, result>>

\* export-all up to its loop: the checks, the folder names, mkdir(tempDir)
exportAllBegin ==
    /\ pc = "start"
    /\ call.fn = "export-all"
    /\ IF ~validateExportPath(call.baseDir) \/ call.config.radius <= 0
       THEN /\ pc' = "failed"
            /\ result' = [result EXCEPT !.error = "rejected"]
       ELSE /\ pc' = "loop"
            /\ result' = [result EXCEPT
                             !.finalDir = finalDirOf(result.fs),
                             !.tempDir = tempDirOf(finalDirOf(result.fs)),
                             !.fs = mkdir(result.fs, tempDirOf(finalDirOf(result.fs)))]
    /\ cursor' = 1
    /\ UNCHANGED <<call, pdfDoc, sortedPageIndices, warnings>>

\* the catch block of export-all
exportAllCatch(error) ==
    /\ pc' = "failed"
    /\ result' = [result EXCEPT !.fs = rm(result.fs, result.tempDir), !.error = error]

\* one piece of export-all: stamp it, name it, write it
exportAllPiece ==
    /\ pc = "loop"
    /\ call.fn = "export-all"
    /\ cursor <= Len(call.pieces)
    /\ LET piece == call.pieces[cursor]
           finalBuffer == finalBufferOf(piece)
           outputName == outputNameOf(piece, call.config)
       IN  IF ~finalBuffer.ok
           THEN exportAllCatch("applyStamps") /\ UNCHANGED cursor
           ELSE \E written \in BOOLEAN :
                   IF written
                   THEN /\ result' = [result EXCEPT !.fs =
                               writeFile(result.fs, result.tempDir,
                                         [name |-> outputName, doc |-> finalBuffer.doc])]
                        /\ cursor' = cursor + 1
                        /\ pc' = "loop"
                   ELSE exportAllCatch("writeFile") /\ UNCHANGED cursor
    /\ UNCHANGED <<call, pdfDoc, sortedPageIndices, warnings>>

\* after the loop: rename(tempDir, finalDir)
exportAllRename ==
    /\ pc = "loop"
    /\ call.fn = "export-all"
    /\ cursor > Len(call.pieces)
    /\ \E renamed \in BOOLEAN :
          IF renamed
          THEN /\ result' = [result EXCEPT
                                !.fs = rename(result.fs, result.tempDir, result.finalDir),
                                !.returned = TRUE]
               /\ pc' = "done"
          ELSE exportAllCatch("rename")
    /\ UNCHANGED <<call, cursor, pdfDoc, sortedPageIndices, warnings>>

\* print-all up to its loop
printAllBegin ==
    /\ pc = "start"
    /\ call.fn = "print-all"
    /\ IF call.settings.deviceName = ""
       THEN pc' = "failed" /\ result' = [result EXCEPT !.error = "rejected"]
       ELSE pc' = "loop" /\ UNCHANGED result
    /\ cursor' = 1
    /\ UNCHANGED <<call, pdfDoc, sortedPageIndices, warnings>>

\* steps 1 to 3 of an iteration: stamp the piece and write the temporary file
printAllStamp ==
    /\ pc = "loop"
    /\ call.fn = "print-all"
    /\ cursor <= Len(call.pieces)
    /\ LET piece == call.pieces[cursor]
           finalBuffer == finalBufferOf(piece)
       IN  IF ~finalBuffer.ok
           THEN pc' = "failed" /\ result' = [result EXCEPT !.error = "applyStamps"]
           ELSE \E written \in BOOLEAN :
                   IF written
                   THEN /\ result' = [result EXCEPT !.tempFiles = Append(@, finalBuffer.doc)]
                        /\ pc' = "print"
                   ELSE pc' = "failed" /\ result' = [result EXCEPT !.error = "writeFile"]
    /\ UNCHANGED <<call, cursor, pdfDoc, sortedPageIndices, warnings>>

\* the entry results gets for a print call
pushResultIfPrinted(results, fileName, printed) ==
    IF printed THEN Append(results, [fileName |-> fileName, success |-> TRUE]) ELSE results
pushResult(results, fileName, printed) ==
    Append(results, [fileName |-> fileName, success |-> printed])

\* step 4: pdfToPrinter.print resolves or rejects
printAllPrint ==
    /\ pc = "print"
    /\ call.fn = "print-all"
    /\ \E printed \in BOOLEAN :
          result' = [result EXCEPT
                        !.jobs = Append(@, [piece |-> cursor,
                                            doc |-> result.tempFiles[Len(result.tempFiles)],
                                            printed |-> printed]),
                        !.results = pushResult(@, call.pieces[cursor].fileName, printed)]
    /\ cursor' = cursor + 1
    /\ pc' = "loop"
    /\ UNCHANGED <<call, pdfDoc, sortedPageIndices, warnings>>

\* return results
printAllReturn ==
    /\ pc = "loop"
    /\ call.fn = "print-all"
    /\ cursor > Len(call.pieces)
    /\ result' = [result EXCEPT !.returned = TRUE]
    /\ pc' = "done"
    /\ UNCHANGED <<call, cursor, pdfDoc, sortedPageIndices, warnings>>

\* the lists the renderer can hold: pieces without or with placements (two
\* after a merge), a buffer that is a document or is not, numbered as
\* recalculateNumbers numbers them
JobPieces ==
    LET doc == PlainDoc(1, 2)
        at(k) == [pageIndex |-> k, x |-> 10, y |-> 10, number |-> 0]
    IN  {[pdfBuffer |-> doc, placements |-> <<>>, fileName |-> <<"a", ".", "a">>],
         [pdfBuffer |-> doc, placements |-> <<at(0)>>, fileName |-> <<"a", ".", "a">>],
         [pdfBuffer |-> doc, placements |-> <<at(0), at(1)>>, fileName |-> <<".", ".", "/", "a">>],
         [pdfBuffer |-> Undecodable, placements |-> <<>>, fileName |-> <<"a", ".", "a">>],
         [pdfBuffer |-> Undecodable, placements |-> <<at(0)>>, fileName |-> <<".", ".", "/", "a">>]}
RECURSIVE JobLists(_)
JobLists(n) ==
    IF n = 0 THEN {<<>>}
    ELSE JobLists(n - 1) \cup
         {Append(ps, [id |-> Len(ps) + 1, pdfBuffer |-> p.pdfBuffer, totalPages |-> 2,
                      placements |-> p.placements, fileName |-> p.fileName]) :
             ps \in {l \in JobLists(n - 1) : Len(l) = n - 1}, p \in JobPieces}
ExportDirs == {<<"c:", "users", "desktop">>, <<"c:", "windows", "temp">>}
Folders == {<<>>, <<folderName(1)>>, <<folderName(1), folderName(2)>>}
Devices == {"", "HP"}

InitJobs ==
    /\ \E ps \in JobLists(MaxJobs), start \in Starts :
          /\ pieces = recalculateNumbers(ps, start)
          /\ startNumber = start
          /\ nextNumber = start + totalStamps(ps)
          /\ idCtr = Len(ps)
          /\ activePieceId = IF ps = <<>> THEN NoId ELSE 1
    /\ currentPage = 1
    /\ nAsync = 0
    /\ pending = <<>>
    /\ renderedSize = FALSE
    /\ InitConfigIdle
    /\ pc = "renderer"
    /\ \E dir \in ExportDirs, device \in Devices :
          call = [fn |-> "none", exportDir |-> dir, settings |-> [deviceName |-> device]]
    /\ pdfDoc = <<>>
    /\ sortedPageIndices = <<>>
    /\ cursor = 0
    /\ warnings = 0
    /\ \E old \in Folders :
          result = [fs |-> [d \in Range(old) |-> <<"old">>], before |-> Range(old),
                    finalDir |-> <<>>, tempDir |-> <<>>,
                    error |-> "none", returned |-> FALSE,
                    tempFiles |-> <<>>, jobs |-> <<>>, results |-> <<>>]

NextJobs ==
    /\ UNCHANGED <<appVars, cfgVars>>
    /\ \/ handleExportAll
       \/ exportAllBegin
       \/ exportAllPiece
       \/ exportAllRename
       \/ handlePrintAll
       \/ printAllBegin
       \/ printAllStamp
       \/ printAllPrint
       \/ printAllReturn

SpecJobs == InitJobs /\ [][NextJobs]_vars

\* ---------------------------------------------------------------- claims
\* the numbers of all placements, read by walking the list in order
RECURSIVE numbersOf(_)
numbersOf(ps) ==
    IF ps = <<>> THEN <<>>
    ELSE [j \in 1..Len(Head(ps).placements) |-> Head(ps).placements[j].number]
         \o numbersOf(Tail(ps))

Consecutive(ps, start) ==
    numbersOf(ps) = [n \in 1..totalStamps(ps) |-> start + n - 1]

\* a placement without its number
where(pl) == [pageIndex |-> pl.pageIndex, x |-> pl.x, y |-> pl.y]
wheres(pls) == [j \in 1..Len(pls) |-> where(pls[j])]

\* C1: in every reachable state every piece holds at most one placement, and
\* that placement is on page index 0.
C1_OnePlacementOnFirstPage ==
    \A i \in 1..Len(pieces) :
        /\ Len(pieces[i].placements) <= 1
        /\ \A j \in 1..Len(pieces[i].placements) : pieces[i].placements[j].pageIndex = 0

\* C1, amended: every operation other than the completion of a merge keeps
\* "at most one placement per piece, on page index 0", for the list and for
\* the pieces captured by the calls in flight.
onePlacementOnFirstPage(p) ==
    /\ Len(p.placements) <= 1
    /\ \A j \in 1..Len(p.placements) : p.placements[j].pageIndex = 0

OnePlacementEverywhere(ps, calls) ==
    /\ \A i \in 1..Len(ps) : onePlacementOnFirstPage(ps[i])
    /\ \A c \in 1..Len(calls) :
          onePlacementOnFirstPage(calls[c].top) /\ onePlacementOnFirstPage(calls[c].bottom)

C1_OnlyMergeAddsPlacements ==
    [][(OnePlacementEverywhere(pieces, pending) /\ ~(\E i \in 1..Len(pending) : completeMerge(i)))
        => OnePlacementEverywhere(pieces', pending')]_vars

\* a stamped piece has been split and still holds its one placement on page 0
C1_Witness ==
    /\ nAsync = 1
    /\ pending = <<>>
    /\ Len(pieces) = 2
    /\ Len(pieces[1].placements) = 1
    /\ pieces[1].placements[1].pageIndex = 0
    /\ Len(pieces[1].pdfBuffer) = 1
    /\ Len(pieces[2].placements) = 0

\* the handlers C2 names
ListEdit ==
    \/ \E i \in 1..Len(pieces), d \in {"up", "down"} : handleReorderPiece(pieces[i].id, d)
    \/ \E c \in Clicks : handleClick(c[1], c[2])
    \/ handleUndo
    \/ handleClearStamps
    \/ \E i \in 1..Len(pieces) : handleRemovePiece(pieces[i].id)
    \/ \E i \in 1..Len(pending) : completeMerge(i)
    \/ \E i \in 1..Len(pending) : completeSplit(i) /\ pieces' # pieces

\* C2: after each of reorder, merge, split, place, undo, clear and remove the
\* numbers read in list order are startNumber, startNumber+1, ... without gap
\* or duplicate.
C2_NumbersFollowStart ==
    [][ListEdit => Consecutive(pieces', startNumber')]_vars

\* C4: the merged piece's placements are A's placements followed by B's with
\* pageIndex increased by the number of pages in A's bytes.
C4_MergeOffsetsByActualPages ==
    [][\A i \in 1..Len(pending) :
          completeMerge(i) =>
             LET A == pending[i].top
                 B == pending[i].bottom
                 merged == find(pieces', A.id)
             IN  wheres(merged.placements) =
                    wheres(A.placements) \o
                    [j \in 1..Len(B.placements) |->
                        [where(B.placements[j]) EXCEPT
                            !.pageIndex = @ + Len(A.pdfBuffer)]]]_vars

\* C5: a split after page k sends the placements with pageIndex <= k to part 1
\* unchanged and the others to part 2 with pageIndex reduced by k+1, in the
\* same relative order, and every resulting pageIndex is a page of its part.
onPagesOf(piece) ==
    \A j \in 1..Len(piece.placements) :
        /\ piece.placements[j].pageIndex >= 0
        /\ piece.placements[j].pageIndex < Len(piece.pdfBuffer)

C5_SplitPartition ==
    [][\A i \in 1..Len(pending) :
          (completeSplit(i) /\ pieces' # pieces) =>
             LET P == pending[i].top
                 k == pending[i].k
                 at == findIndex(pieces', P.id) + 1
                 piece1 == pieces'[at]
                 piece2 == pieces'[at + 1]
                 low == SelectSeq(P.placements, LAMBDA pl : pl.pageIndex <= k)
                 high == SelectSeq(P.placements, LAMBDA pl : pl.pageIndex > k)
             IN  /\ wheres(piece1.placements) = wheres(low)
                 /\ wheres(piece2.placements) =
                       [j \in 1..Len(high) |->
                           [where(high[j]) EXCEPT !.pageIndex = @ - (k + 1)]]
                 /\ Len(piece1.placements) + Len(piece2.placements) = Len(P.placements)
                 /\ onPagesOf(piece1)
                 /\ onPagesOf(piece2)]_vars

\* C3: recalculateNumbers walks the pieces in list order, returns a piece
\* without placements unchanged, gives the k-th placement met (k from 0) the
\* number start + k, and changes neither another field nor the piece order.
C3_Renumber ==
    (pc = "done" /\ call.fn = "recalculateNumbers") =>
        LET in == call.doc
            out == result.doc
            start == call.k
        IN  /\ Len(out) = Len(in)
            /\ \A i \in 1..Len(in) :
                 /\ Len(in[i].placements) = 0 => out[i] = in[i]
                 /\ Len(out[i].placements) = Len(in[i].placements)
                 /\ [out[i] EXCEPT !.placements = in[i].placements] = in[i]
                 /\ \A j \in 1..Len(in[i].placements) :
                      /\ out[i].placements[j].number =
                            start + totalStamps(SubSeq(in, 1, i - 1)) + (j - 1)
                      /\ where(out[i].placements[j]) = where(in[i].placements[j])

\* the example of the specification: [P1(0), P2(1), P3(1)], start 5 -> 5, 6
C3_Witness ==
    /\ pc = "done"
    /\ call.fn = "recalculateNumbers"
    /\ call.k = 5
    /\ Len(call.doc) = 3
    /\ Len(call.doc[1].placements) = 0
    /\ Len(call.doc[2].placements) = 1
    /\ Len(call.doc[3].placements) = 1
    /\ numbersOf(result.doc) = <<5, 6>>

\* C6: splitPdf with afterPageIndex negative or >= pageCount - 1 fails and
\* returns no parts, called directly or through the split-pdf handler.
C6_SplitRejectsOutOfRange ==
    (/\ pc = "done"
     /\ call.fn \in {"splitPdf", "split-pdf"}
     /\ (call.k < 0 \/ call.k >= Len(call.doc) - 1))
    => (~result.ok /\ result.part1 = <<>> /\ result.part2 = <<>>)

\* C7: for 0 <= k < p-1 splitPdf(D, k) yields pages 0..k and pages k+1..p-1 in
\* their order, and mergePdfs(part1, part2) yields the p pages of D in order.
C7_SplitThenMerge ==
    /\ (/\ pc = "done"
        /\ call.fn \in {"splitPdf", "split-pdf"}
        /\ call.k >= 0
        /\ call.k < Len(call.doc) - 1)
       => /\ result.ok
          /\ Len(result.part1) = call.k + 1
          /\ Len(result.part2) = Len(call.doc) - call.k - 1
          /\ \A i \in 1..Len(call.doc) :
                call.doc[i] = IF i <= call.k + 1 THEN result.part1[i]
                              ELSE result.part2[i - call.k - 1]
    /\ (/\ pc = "done"
        /\ call.fn = "mergePdfs"
        /\ call.orig # <<>>
        /\ call.k >= 0
        /\ call.k < Len(call.orig) - 1)
       => (result.ok /\ result.doc = call.orig)

C7_Witness ==
    /\ pc = "done"
    /\ call.fn = "mergePdfs"
    /\ Len(call.orig) = 3
    /\ call.k = 1
    /\ Len(call.doc) = 2
    /\ Len(call.doc2) = 1
    /\ Len(result.doc) = 3

\* C8: mergePdfs(A, B) yields p+q pages: A's pages at 0..p-1 in A's order,
\* then B's pages at p..p+q-1 in B's order.
C8_MergeAppends ==
    (pc = "done" /\ call.fn = "mergePdfs") =>
        LET p == Len(call.doc)
            q == Len(call.doc2)
        IN  /\ result.ok
            /\ Len(result.doc) = p + q
            /\ \A i \in 0..(p - 1) : result.doc[i + 1] = call.doc[i + 1]
            /\ \A j \in 0..(q - 1) : result.doc[p + j + 1] = call.doc2[j + 1]

C8_Witness ==
    /\ pc = "done"
    /\ call.fn = "mergePdfs"
    /\ call.orig = <<>>
    /\ Len(call.doc) = 2
    /\ Len(call.doc2) = 1
    /\ Len(result.doc) = 3

\* the page indices that carry a placement
stampedIndices == {call.placements[j].pageIndex : j \in 1..Len(call.placements)}
allOnPages == \A i \in stampedIndices : isPage(call.doc, i)

\* C9: applyStamps works through the indices that carry placements in strictly
\* descending order, each exactly once, from a list fixed before the first
\* replacement; a page still to be processed is where the input had it, and
\* every placement ends up drawn on the page its pageIndex named in the input.
C9_DescendingFixedList ==
    (call.fn = "applyStamps" /\ pc \in {"loop", "done"}) =>
        /\ \A a, b \in 1..Len(sortedPageIndices) :
              a < b => sortedPageIndices[a] > sortedPageIndices[b]
        /\ Range(sortedPageIndices) = stampedIndices
        /\ cursor \in 1..(Len(sortedPageIndices) + 1)
        /\ Len(pdfDoc) = Len(call.doc)
        /\ \A c \in cursor..Len(sortedPageIndices) :
              isPage(call.doc, sortedPageIndices[c]) =>
                 pdfDoc[sortedPageIndices[c] + 1] = load(call.doc)[sortedPageIndices[c] + 1]
        /\ \A c \in 1..(cursor - 1) :
              LET i == sortedPageIndices[c]
              IN  /\ pdfDoc[i + 1].id = call.doc[i + 1].id
                  /\ [j \in 1..Len(pdfDoc[i + 1].stamps) |-> pdfDoc[i + 1].stamps[j].number]
                       = [j \in 1..Len(placementsOn(call.placements, i)) |->
                             placementsOn(call.placements, i)[j].number]

\* two stamped pages, the lower one rotated, both processed
C9_Witness ==
    /\ call.fn = "applyStamps"
    /\ pc = "done"
    /\ sortedPageIndices = <<2, 0>>
    /\ call.doc[1].rot = 90
    /\ pdfDoc[1].rebuilt
    /\ Len(pdfDoc[1].stamps) = 1
    /\ Len(pdfDoc[3].stamps) = 1

processedIndices == {sortedPageIndices[c] : c \in 1..(cursor - 1)}

\* C11: a stamped page with flag 90 or 270 is replaced by a page without
\* rotation flag of dimensions H x W, one with flag 180 by a page without flag
\* of dimensions W x H, and one with flag 0 is not replaced and keeps W x H.
C11_RotationNormalized ==
    (call.fn = "applyStamps" /\ pc \in {"loop", "done"}) =>
        \A i \in processedIndices :
            LET in == call.doc[i + 1]
                out == pdfDoc[i + 1]
            IN  /\ in.rot \in {90, 270} =>
                      out.rebuilt /\ out.rot = 0 /\ out.w = in.h /\ out.h = in.w
                /\ in.rot = 180 =>
                      out.rebuilt /\ out.rot = 0 /\ out.w = in.w /\ out.h = in.h
                /\ in.rot = 0 =>
                      ~out.rebuilt /\ out.rot = 0 /\ out.w = in.w /\ out.h = in.h

\* pages with flags 90 and 180 have both been stamped and replaced
C11_Witness ==
    /\ call.fn = "applyStamps"
    /\ pc = "done"
    /\ Len(call.doc) = 2
    /\ call.doc[1].rot = 90
    /\ call.doc[2].rot = 180
    /\ stampedIndices = {0, 1}
    /\ result.doc[1].w = RawH
    /\ result.doc[1].h = RawW
    /\ result.doc[2].w = RawW

\* the display rotation of a flag, clockwise: where the raw point lands
displayedAt(rotation, W, H, bx, by) ==
    CASE rotation = 90  -> <<by, W - bx>>
      [] rotation = 180 -> <<W - bx, H - by>>
      [] rotation = 270 -> <<H - by, bx>>

oddIndices == {i \in stampedIndices : call.doc[i + 1].rot \notin {0, 90, 180, 270}}

\* C13: a stamped page with a flag outside {0, 90, 180, 270} does not make
\* applyStamps fail: one warning per such page, the original drawn without
\* transform on a replacement of the raw dimensions, every placement of the
\* page drawn, and the document returned.
C13_OddRotationNotFatal ==
    (call.fn = "applyStamps" /\ allOnPages) =>
        /\ pc # "failed"
        /\ pc \in {"loop", "done"} =>
             /\ warnings = Cardinality(oddIndices \cap processedIndices)
             /\ \A i \in oddIndices \cap processedIndices :
                   /\ pdfDoc[i + 1].rebuilt
                   /\ pdfDoc[i + 1].drawPage = <<0, 0, 0>>
                   /\ pdfDoc[i + 1].w = call.doc[i + 1].w
                   /\ pdfDoc[i + 1].h = call.doc[i + 1].h
                   /\ Len(pdfDoc[i + 1].stamps) = Len(placementsOn(call.placements, i))
        /\ pc = "done" => result.ok /\ result.doc = pdfDoc /\ processedIndices = stampedIndices

\* pages flagged 360 and -90 both stamped, the first one twice
C13_Witness ==
    /\ call.fn = "applyStamps"
    /\ pc = "done"
    /\ Len(call.doc) = 2
    /\ call.doc[1].rot = 360
    /\ call.doc[2].rot = -90
    /\ Len(call.placements) = 2
    /\ stampedIndices = {0, 1}
    /\ warnings = 2
    /\ result.ok

\* C14 as stated: the round trip gives back the pointer position, whatever
\* the offset of the container.
C14_RoundTripIsPointer ==
    (call.fn = "screenToPdf" /\ pc = "done") =>
        /\ eq(result.screen.x, num(call.mouse[1]))
        /\ eq(result.screen.y, num(call.mouse[2]))

\* C14, amended: the round trip gives the pointer position relative to the
\* container, that is the pointer position minus the container's left and top.
C14_RoundTripIsRelative ==
    (call.fn = "screenToPdf" /\ pc = "done") =>
        /\ eq(result.screen.x, num(call.mouse[1] - call.rect.left))
        /\ eq(result.screen.y, num(call.mouse[2] - call.rect.top))

\* a click strictly inside a container that is offset in both directions
C14_Witness ==
    /\ call.fn = "screenToPdf"
    /\ pc = "done"
    /\ call.rect.left = 3
    /\ call.rect.top = 2
    /\ call.mouse = <<5, 3>>
    /\ eq(result.screen.x, num(2))
    /\ eq(result.screen.y, num(1))

\* C15: screenToPdf maps the container's top-left corner to (0, pageHeight),
\* its bottom-right corner to (pageWidth, 0), its centre to the page centre,
\* and every pointer inside the container to a point of the page.
C15_ScreenToPdfInsidePage ==
    (call.fn = "screenToPdf" /\ pc \in {"placed", "done"}) =>
        LET relX == call.mouse[1] - call.rect.left
            relY == call.mouse[2] - call.rect.top
            pw == num(call.page[1])
            ph == num(call.page[2])
            x == result.pdf.x
            y == result.pdf.y
        IN  /\ le(num(0), x) /\ le(x, pw)
            /\ le(num(0), y) /\ le(y, ph)
            /\ (relX = 0 /\ relY = 0) => (eq(x, num(0)) /\ eq(y, ph))
            /\ (relX = call.rect.width /\ relY = call.rect.height) => (eq(x, pw) /\ eq(y, num(0)))
            /\ (2 * relX = call.rect.width /\ 2 * relY = call.rect.height) =>
                  (eq(x, <<call.page[1], 2>>) /\ eq(y, <<call.page[2], 2>>))

\* the centre of an offset container has been mapped to the page centre
C15_Witness ==
    /\ call.fn = "screenToPdf"
    /\ pc = "placed"
    /\ call.rect = [left |-> 1, top |-> 0, width |-> 4, height |-> 6]
    /\ call.mouse = <<3, 3>>
    /\ call.page = <<3, 5>>
    /\ eq(result.pdf.x, <<3, 2>>)
    /\ eq(result.pdf.y, <<5, 2>>)

\* C16: fitFontSize tests at most 20 sizes, and the size it returns is the
\* last size it tested, whether a test succeeded or all 20 failed.
C16_ReturnsLastTested ==
    (call.fn = "fitFontSize" /\ pc = "done") =>
        /\ Len(result.tested) <= Attempts
        /\ Len(result.tested) >= 1
        /\ result.fontSize = result.tested[Len(result.tested)]

\* C17: the size returned by fitFontSize never exceeds the requested maximum,
\* equals it for the empty text, and is not larger than the size returned for
\* the same text without its last character.
C17_FitMonotone ==
    (call.fn = "fitFontSize" /\ pc = "done") =>
        /\ result.fontSize <= call.maxFontSize
        /\ call.text = <<>> => result.fontSize = call.maxFontSize
        /\ call.text # <<>> =>
              result.fontSize <=
                 fitFontSize(TimesRomanBold, SubSeq(call.text, 1, Len(call.text) - 1),
                             call.maxFontSize, call.radius, call.maxAngle)

\* a text of three glyphs got a size below the maximum and strictly below the
\* size of its first two glyphs
C17_Witness ==
    /\ call.fn = "fitFontSize"
    /\ pc = "done"
    /\ Len(call.text) = 3
    /\ result.fontSize < call.maxFontSize
    /\ result.fontSize <
          fitFontSize(TimesRomanBold, SubSeq(call.text, 1, 2),
                      call.maxFontSize, call.radius, call.maxAngle)
    /\ Len(result.tested) < Attempts

\* C18: the arc from the leading edge of the first glyph to the trailing edge
\* of the last is symmetric about the centre angle, the glyph centres are
\* strictly monotone in reading order, and consecutive centres are separated
\* by half of each glyph's width plus one spacing.
C18_ArcCentred ==
    (call.fn = "drawCurvedText" /\ pc = "done" /\ call.text # <<>>) =>
        LET g == result.glyphs
            n == Len(g)
            dir == IF call.isTop THEN -1 ELSE 1
            leading == g[1].angle.half - dir * g[1].width
            trailing == g[n].angle.half + dir * g[n].width
        IN  /\ n = Len(call.text)
            /\ \A j \in 1..n : g[j].angle.quarter = (IF call.isTop THEN 1 ELSE -1)
            /\ leading + trailing = 0
            /\ \A j \in 1..(n - 1) :
                  dir * (g[j + 1].angle.half - g[j].angle.half)
                     = g[j].width + g[j + 1].width + 2 * spacingAt(call.fontSize)
            /\ \A j \in 1..(n - 1) :
                  dir * (g[j + 1].angle.half - g[j].angle.half) > 0

\* a re-click at (x, y): the active piece already has a stamp on page index 0
reClick(x, y) ==
    /\ handleClick(x, y)
    /\ \E j \in 1..Len(activePiece.placements) : activePiece.placements[j].pageIndex = 0

\* what a re-click at (x, y) may change: the x and y of the placement on page
\* index 0 of the active piece, and nothing else in the list
onlyMoved(x, y) ==
    /\ Len(pieces') = Len(pieces)
    /\ \A i \in 1..Len(pieces) :
          IF pieces[i].id # activePieceId THEN pieces'[i] = pieces[i]
          ELSE /\ pieces'[i].id = pieces[i].id
               /\ Len(pieces'[i].placements) = Len(pieces[i].placements)
               /\ \A j \in 1..Len(pieces[i].placements) :
                     LET old == pieces[i].placements[j]
                         new == pieces'[i].placements[j]
                     IN  /\ new.number = old.number
                         /\ new.pageIndex = old.pageIndex
                         /\ IF old.pageIndex = 0 THEN new.x = x /\ new.y = y
                                                 ELSE new.x = old.x /\ new.y = old.y

\* C19: re-clicking on page 0 of a piece that already has a stamp changes only
\* the x and y of that placement: same number, no placement added, the other
\* pieces' placements and the piece order unchanged.
C19_ReClickMovesOnly ==
    [][\A c \in Clicks : reClick(c[1], c[2]) => onlyMoved(c[1], c[2])]_vars

\* C20: in every reachable state the placements carry startNumber,
\* startNumber + 1, ... in list order, also after the start number changed.
C20_NumbersFollowStartAlways ==
    Consecutive(pieces, startNumber)

\* C21: in every reachable state of the renderer every stored placement has
\* number >= 1 and pageIndex >= 0, whatever start number the configurator
\* input or the loaded configuration has set.
C21_PlacementsValid ==
    \A i \in 1..Len(pieces) : \A j \in 1..Len(pieces[i].placements) :
        /\ pieces[i].placements[j].number >= 1
        /\ pieces[i].placements[j].pageIndex >= 0

\* C30: no saveStampConfig call is issued before the persisted configuration
\* has been loaded, in any ordering of the edits and the getStampConfig reply,
\* and no save replaces a stored value by the initial value of the renderer's
\* state (the bottom text 'AVOCAT', which is never typed here).
SaveAfterLoad == saveTimeoutFires => configLoadedRef
DefaultNotStored ==
    configFile'.bottomText = AVOCAT => configFile.bottomText = AVOCAT
C30_NoSaveBeforeLoad == [][SaveAfterLoad /\ DefaultNotStored]_vars

\* the half of C30 about the order of the calls
C30_SaveOnlyAfterLoad == [][SaveAfterLoad]_vars

\* C24: for every name, sanitizeFileName returns at most 200 characters,
\* without a '..' sequence, without any of < > : " / \ | ? * and without a
\* control character; a name that already is like that is returned unchanged,
\* so the function applied twice gives what it gives applied once.
isSafeName(name) ==
    /\ Len(name) <= NameLimit
    /\ \A i \in 1..(Len(name) - 1) : ~(name[i] = "." /\ name[i + 1] = ".")
    /\ \A i \in 1..Len(name) : ~isForbidden(name[i])

C24_SanitizeSafeAndIdempotent ==
    /\ pc \in {"again", "done"} /\ call.fn = "sanitizeFileName" =>
          /\ isSafeName(result.once)
          /\ isSafeName(call.name) => result.once = call.name
    /\ pc = "done" /\ call.fn = "sanitizeFileName" => result.twice = result.once

\* a long name ending in a traversal was cut, cleaned and sanitized again
C24_Witness ==
    /\ pc = "done"
    /\ call.fn = "sanitizeFileName"
    /\ Len(call.name) > NameLimit
    /\ \E i \in 1..(Len(call.name) - 1) : call.name[i] = "." /\ call.name[i + 1] = "."
    /\ \E i \in 1..Len(call.name) : call.name[i] = "\t"
    /\ Len(result.once) = NameLimit
    /\ result.once # call.name

\* C22: print-all issues one print call per piece and returns exactly one
\* result per input piece, in input order; a rejected print call is recorded
\* as success = false for its piece and the following pieces are still
\* stamped and printed.
C22_OneResultPerPiece ==
    call.fn = "print-all" =>
        /\ Len(result.results) = Len(result.jobs)
        /\ \A k \in 1..Len(result.jobs) :
              /\ result.jobs[k].piece = k
              /\ result.jobs[k].doc = finalBufferOf(call.pieces[k]).doc
              /\ result.results[k].fileName = call.pieces[k].fileName
              /\ result.results[k].success = result.jobs[k].printed
        /\ pc = "loop" => Len(result.results) = cursor - 1
        /\ pc = "done" => result.returned /\ Len(result.results) = Len(call.pieces)
        /\ pc = "failed" => result.error \in {"rejected", "applyStamps", "writeFile"}

\* the print call of the first piece was rejected, the second piece was
\* stamped and printed, and both results were returned
C22_Witness ==
    /\ call.fn = "print-all"
    /\ pc = "done"
    /\ Len(call.pieces) = 2
    /\ result.results[1].success = FALSE
    /\ result.results[2].success = TRUE
    /\ Len(call.pieces[2].placements) > 0
    /\ result.jobs[2].doc[1].stamps # <<>>

\* the folders a call of export-all has brought into existence; the folders
\* of earlier exports stay as they were
created(fs) == DOMAIN fs \ result.before
untouched(fs) == \A d \in result.before : existsSync(fs, d) /\ fs[d] = <<"old">>

drawnNumbers(doc) ==
    {doc[q].stamps[j].number : <<q, j>> \in
             {<<q, j>> \in (1..Len(doc)) \X (1..MaxPlacements) : j <= Len(doc[q].stamps)}}

\* C26: for every piece list and start number, the piece number in the name
\* of the exported file of a stamped piece is the number drawn in that
\* piece's stamp (one of them when a merged piece carries two).
C26_FileNumberIsStampNumber ==
    call.fn = "export-all" /\ pc = "done" =>
        \A k \in 1..Len(call.pieces) :
            LET file == result.fs[result.finalDir][k]
            IN  Len(call.pieces[k].placements) > 0 =>
                    file.name.pieceNumber \in drawnNumbers(file.doc)

\* the negation of an angle
neg(angle) == [quarter |-> -angle.quarter, half |-> -angle.half]

\* C25: for the same text, glyph widths, font size and radius, the vector
\* layout mirrors the raster layout: for every glyph, the arc angle of
\* drawCurvedText is the negation of the angle of drawCurvedTextOnCanvas and
\* its rotation the negation of the canvas rotation, for the top and for the
\* bottom text.
C25_VectorMirrorsRaster ==
    (call.fn = "drawCurvedText" /\ pc = "previewed") =>
        /\ Len(result.glyphs) = Len(result.canvas)
        /\ \A i \in 1..Len(result.glyphs) :
              /\ result.glyphs[i].char = result.canvas[i].char
              /\ result.glyphs[i].angle = neg(result.canvas[i].angle)
              /\ result.glyphs[i].rot = neg(result.canvas[i].rot)

\* a bottom text of three glyphs of different widths was laid out both ways
C25_Witness ==
    /\ call.fn = "drawCurvedText"
    /\ pc = "previewed"
    /\ ~call.isTop
    /\ call.text = <<"I", "M", "I">>
    /\ result.glyphs[2].angle.half # result.glyphs[1].angle.half
    /\ result.canvas[1].angle.quarter = 1

\* the pieces a call in flight was started on
targets(c) == {c.top.id, c.bottom.id}
\* a piece without the numbers of its placements
unnumbered(p) == [id |-> p.id, pdfBuffer |-> p.pdfBuffer, placements |-> wheres(p.placements)]
others(ps, c) ==
    LET rest == SelectSeq(ps, LAMBDA p : p.id \notin targets(c))
    IN  [j \in 1..Len(rest) |-> unnumbered(rest[j])]

\* C27: a split or merge whose target piece has been removed from the list
\* while its IPC call was in flight leaves every other piece in place and
\* unchanged (none deleted, none replaced, none added) and does not put the
\* removed piece back.
C27_RemovedTargetLeavesList ==
    [][\A i \in 1..Len(pending) :
          ((completeMerge(i) \/ completeSplit(i))
             /\ \E t \in targets(pending[i]) : ~has(pieces, t)) =>
                /\ others(pieces', pending[i]) = others(pieces, pending[i])
                /\ \A t \in targets(pending[i]) : ~has(pieces, t) => ~has(pieces', t)]_vars

\* where the placements of a list of pieces are on their pages
xys(placements) == {<<placements[j].x, placements[j].y>> : j \in 1..Len(placements)}

\* C28: a placement created, moved or cleared on a piece while a merge or
\* split of that piece awaits its IPC result is still reflected in the list
\* after the completion: the result holds the piece's placements of the
\* moment of completion, not those captured when the operation started.
C28_CompletionKeepsLaterPlacements ==
    [][\A i \in 1..Len(pending) :
          /\ (completeMerge(i) /\ \A t \in targets(pending[i]) : has(pieces, t)) =>
                LET c == pending[i]
                    merged == find(pieces', c.top.id)
                IN  /\ Len(merged.placements) =
                          Len(find(pieces, c.top.id).placements)
                          + Len(find(pieces, c.bottom.id).placements)
                    /\ xys(merged.placements) =
                          xys(find(pieces, c.top.id).placements)
                          \cup xys(find(pieces, c.bottom.id).placements)
          /\ (completeSplit(i) /\ has(pieces, pending[i].top.id) /\ pieces' # pieces) =>
                LET c == pending[i]
                    idx == findIndex(pieces', c.top.id)
                    piece1 == pieces'[idx + 1]
                    piece2 == pieces'[idx + 2]
                    now == find(pieces, c.top.id).placements
                IN  /\ Len(piece1.placements) + Len(piece2.placements) = Len(now)
                    /\ xys(piece1.placements) \cup xys(piece2.placements) = xys(now)]_vars

\* the document pages of all pieces of the list
RECURSIVE documentPages(_)
documentPages(ps) ==
    IF ps = <<>> THEN 0 ELSE Len(Head(ps).pdfBuffer) + documentPages(Tail(ps))

\* C29: the number of document pages summed over the list is unchanged by
\* reorder, merge and split in every interleaving, also when a second split
\* or merge of a piece is started before the first one has completed.
C29_PagesConserved ==
    [][(\/ \E i \in 1..Len(pieces), d \in {"up", "down"} : handleReorderPiece(pieces[i].id, d)
        \/ \E i \in 1..Len(pieces) : startMergeWithin(i, MaxRace)
        \/ \E i \in 1..Len(pieces), k \in 0..(MaxFiles * MaxPages) :
               startSplitWithin(i, k, MaxRace)
        \/ \E i \in 1..Len(pending) : completeMerge(i)
        \/ \E i \in 1..Len(pending) : completeSplit(i))
       => documentPages(pieces') = documentPages(pieces)]_vars

====
